---- MODULE Spec2Model ----
(***************************************************************************)
(* State-machine model of the CityGrow scene (src/src/city_grow.rs): the   *)
(* occupancy grid, the branches, the growth tick (branching pass, stepping *)
(* pass, stop collection), the reverse/erase engine, the fade-out, the     *)
(* resize handler and the render callback.                                 *)
(*                                                                         *)
(* Conventions.  Vec<T> is a sequence (Rust index k is TLA+ index k+1).    *)
(* Option<T> is a sequence of length 0 (None) or 1 (Some).  f32 values are *)
(* kept as exact integers: pixel coordinates are integral for an integral  *)
(* cell size, probabilities are compared by cross-multiplication, and time *)
(* is counted in units of REVERSE_UPDATE_INTERVAL (1/60 s).  Colours and   *)
(* the cached command-list chunks do not influence the simulation and are  *)
(* left out, except the lightness preset that tells seeds and promoted     *)
(* children from secondary branches.                                       *)
(*                                                                         *)
(* update() is split at its loop boundaries: pc and i hold the position of *)
(* the running call, branch_count / new_branches / new_pos / scaled are    *)
(* its locals.  No other callback runs while pc # "idle".                  *)
(***************************************************************************)
EXTENDS Integers, Sequences, FiniteSets, TLC

VARIABLES
    cfg,                      \* CityGrowScene.config
    rng,                      \* CityGrowScene.rng: "random" or "scripted"
    cell_count_x,
    cell_count_y,
    cells,                    \* Vec<u8>, row-major
    branch_list,              \* active branches
    all_branches,             \* stopped branches
    reverse_running,
    fading_out,
    fade_alpha,
    reverse_time_accumulator,
    pc,                       \* position inside update(): idle/branching/stepping/commit
    i,                        \* loop index of the running pass (1-based)
    branch_count,             \* local of update(): branch_list.len() at the start of the pass
    new_branches,             \* local of update(): children of this tick
    new_pos,                  \* local of update(): Option<Pos> returned by find_next_move
    scaled,                   \* local of update(): threshold used by the last branch-off roll
    turn,                     \* host frame position: "update" or "render"
    call,                     \* the callback the host invoked last, with its arguments
    submitted,                \* batches handed to the renderer by the last render()
    panicked,                 \* the process hit a panic
    ticks                     \* history: growth ticks begun since the scene was (re)initialised

vars == <<cfg, rng, cell_count_x, cell_count_y, cells, branch_list, all_branches,
          reverse_running, fading_out, fade_alpha, reverse_time_accumulator,
          pc, i, branch_count, new_branches, new_pos, scaled, turn, call,
          submitted, panicked, ticks>>

gridVars == <<cell_count_x, cell_count_y, cells>>
flagVars == <<reverse_running, fading_out, fade_alpha, reverse_time_accumulator>>
localVars == <<pc, i, branch_count, new_branches, new_pos, scaled>>

-----------------------------------------------------------------------------
(* Program constants                                                       *)

\* config.initial_size default; size = initial_size as f32
InitialSize == 3
\* create_line: line_width (both modes)
LineWidth == 2
\* FADE_DURATION = 1.5 s, in units of 1/60 s
FADE_DURATION == 90
\* REVERSE_UPDATE_INTERVAL = 1/60 s, in units of 1/60 s
REVERSE_UPDATE_INTERVAL == 1
\* on_resize: number of seeds used when config.start_branches is 0
ResizeFallbackBranches == 3
\* find_next_move: copies of the expand field pushed to favour the direction
ExpandBias == 10
\* stand-in for 2^64 in usize::wrapping_sub (any value above every index)
USIZE_WRAP == 1000000
\* CityGrowConfig::default(): probabilities in percent, prop_land_to_city in
\* thousandths of 1 (0.003)
PropCityToLand == 12
PropLandToCityMilli == 3
PropBranchOff == 15
PropBranchOffLand == 6
PropBranchOffToMain == 1
BranchFallOff == 50
LifeTimeBranch == 2

-----------------------------------------------------------------------------
(* Bounds of the model                                                     *)

\* largest config.life_time explored
MaxLifeTime == 4
\* largest config.reverse_actions_per_frame explored
MaxReverseActions == 2
\* largest reverse_time_accumulator value explored (units of 1/60 s)
MaxAccumulator == 1
\* largest config.start_branches explored
MaxStartBranches == 2
\* largest config.max_steps_back explored
MaxStepsBack == 2

-----------------------------------------------------------------------------
(* Generic helpers                                                         *)

Min(a, b) == IF a <= b THEN a ELSE b
Max(a, b) == IF a >= b THEN a ELSE b

Reverse(s) == [k \in 1..Len(s) |-> s[Len(s) + 1 - k]]

RECURSIVE Concat(_)
Concat(ss) == IF ss = <<>> THEN <<>> ELSE Head(ss) \o Concat(Tail(ss))

RECURSIVE SumLens(_)
SumLens(ss) == IF ss = <<>> THEN 0 ELSE Len(Head(ss)) + SumLens(Tail(ss))

Range(s) == {s[k] : k \in 1..Len(s)}

\* ceil(a / b) for a >= 0, b >= 1  ((a as f32 / b as f32).ceil())
CeilDiv(a, b) == (a + b - 1) \div b

\* (w as f32 / size / 2.0).round(): round half away from zero, w >= 0
RoundHalf(w, size) == (w + size) \div (2 * size)

-----------------------------------------------------------------------------
(* Pos                                                                     *)

Pos(x, y) == [x |-> x, y |-> y]

to_idx(pos, ccx) == pos.y * ccx + pos.x

from_idx(idx, ccx) ==
    LET y == idx \div ccx
        x == idx - y * ccx
    IN  Pos(x, y)

wrapping_sub(a, b) == IF a >= b THEN a - b ELSE a - b + USIZE_WRAP

\* cells[idx] with Rust's 0-based index
CellAt(cs, idx) == cs[idx + 1]

-----------------------------------------------------------------------------
(* DrawAction                                                              *)

Line(fx, fy, tx, ty) ==
    [kind |-> "Line", from_x |-> fx, from_y |-> fy, to_x |-> tx, to_y |-> ty]

Rect(x, y, w, h) ==
    [kind |-> "Rect", x |-> x, y |-> y, width |-> w, height |-> h]

-----------------------------------------------------------------------------
(* Random number generator                                                 *)

\* representatives of rng.random_range(0.0..1.0), in hundredths: the exact
\* lower end 0.0 and a value next to 1.0.  The scripted
\* generator only ever returns the high value.
Rolls == IF rng = "scripted" THEN {99} ELSE {0, 99}

\* rng.random_range(0..n), n >= 1: any index, or index 0 when scripted
RandomIndex(n) == IF rng = "scripted" THEN {0} ELSE 0..(n - 1)

\* rng.random_range(0..=n)
RandomUpTo(n) == IF rng = "scripted" THEN {0} ELSE 0..n

-----------------------------------------------------------------------------
(* Branch                                                                  *)

NewBranch(pos, life_time, lightness) ==
    [pos |-> pos,
     state |-> "Running",
     mode |-> "City",
     expand_direction |-> Pos(0, 0),
     own_fields |-> <<pos>>,
     age |-> 0,
     life_time |-> life_time,
     lightness |-> lightness,
     history |-> <<>>,
     rendered_count |-> 0,
     pending_erasures |-> <<>>]
\* mutant: the East test forgets the occupancy of the cell
get_free_fields_east_unchecked(pos, cs, ccx, ccy) ==
    LET idx == to_idx(pos, ccx)
        east == IF pos.x + 1 < ccx /\ idx + 1 < Len(cs)
                THEN <<Pos(pos.x + 1, pos.y)>> ELSE <<>>
        west == IF pos.x > 0 /\ idx - 1 < Len(cs) /\ CellAt(cs, idx - 1) = 0
                THEN <<Pos(pos.x - 1, pos.y)>> ELSE <<>>
        south == IF pos.y + 1 < ccy /\ idx + ccx < Len(cs) /\ CellAt(cs, idx + ccx) = 0
                 THEN <<Pos(pos.x, pos.y + 1)>> ELSE <<>>
        north == IF pos.y > 0 /\ idx - ccx < Len(cs) /\ CellAt(cs, idx - ccx) = 0
                 THEN <<Pos(pos.x, pos.y - 1)>> ELSE <<>>
    IN  east \o west \o south \o north

\* mutant: South is enumerated before East
get_free_fields_south_first(pos, cs, ccx, ccy) ==
    LET idx == to_idx(pos, ccx)
        east == IF pos.x + 1 < ccx /\ idx + 1 < Len(cs) /\ CellAt(cs, idx + 1) = 0
                THEN <<Pos(pos.x + 1, pos.y)>> ELSE <<>>
        west == IF pos.x > 0 /\ idx - 1 < Len(cs) /\ CellAt(cs, idx - 1) = 0
                THEN <<Pos(pos.x - 1, pos.y)>> ELSE <<>>
        south == IF pos.y + 1 < ccy /\ idx + ccx < Len(cs) /\ CellAt(cs, idx + ccx) = 0
                 THEN <<Pos(pos.x, pos.y + 1)>> ELSE <<>>
        north == IF pos.y > 0 /\ idx - ccx < Len(cs) /\ CellAt(cs, idx - ccx) = 0
                 THEN <<Pos(pos.x, pos.y - 1)>> ELSE <<>>
    IN  south \o east \o west \o north

\* mutant: the West test has lost its column guard
get_free_fields_west_wraps(pos, cs, ccx, ccy) ==
    LET idx == to_idx(pos, ccx)
        east == IF pos.x + 1 < ccx /\ idx + 1 < Len(cs) /\ CellAt(cs, idx + 1) = 0
                THEN <<Pos(pos.x + 1, pos.y)>> ELSE <<>>
        widx == wrapping_sub(idx, 1)
        west == IF widx < Len(cs) /\ CellAt(cs, widx) = 0
                THEN <<Pos(pos.x - 1, pos.y)>> ELSE <<>>
        sidx == idx + ccx
        south == IF pos.y + 1 < ccy /\ sidx < Len(cs) /\ CellAt(cs, sidx) = 0
                 THEN <<Pos(pos.x, pos.y + 1)>> ELSE <<>>
        nidx == wrapping_sub(idx, ccx)
        north == IF pos.y > 0 /\ nidx < Len(cs) /\ CellAt(cs, nidx) = 0
                 THEN <<Pos(pos.x, pos.y - 1)>> ELSE <<>>
    IN  east \o west \o south \o north

get_free_fields(pos, cs, ccx, ccy) ==
    LET idx == to_idx(pos, ccx)
        east == IF pos.x + 1 < ccx /\ idx + 1 < Len(cs) /\ CellAt(cs, idx + 1) = 0
                THEN <<Pos(pos.x + 1, pos.y)>> ELSE <<>>
        widx == wrapping_sub(idx, 1)
        west == IF pos.x > 0 /\ widx < Len(cs) /\ CellAt(cs, widx) = 0
                THEN <<Pos(pos.x - 1, pos.y)>> ELSE <<>>
        sidx == idx + ccx
        south == IF pos.y + 1 < ccy /\ sidx < Len(cs) /\ CellAt(cs, sidx) = 0
                 THEN <<Pos(pos.x, pos.y + 1)>> ELSE <<>>
        nidx == wrapping_sub(idx, ccx)
        north == IF pos.y > 0 /\ nidx < Len(cs) /\ CellAt(cs, nidx) = 0
                 THEN <<Pos(pos.x, pos.y - 1)>> ELSE <<>>
    IN  east \o west \o south \o north

\* mutant: the fill rectangles are pushed in Land mode as well
create_line_actions_fill_always(b, to_pos, from_opt, size, fill_city) ==
    LET from_pos == IF from_opt = <<>> THEN b.pos ELSE from_opt[1]
        offset == LineWidth \div 2
        margin == LineWidth \div 2
        scale == 2 * size
        margin_offset == margin + offset
        rect_size == scale - 2 * margin
        last_position == b.own_fields[Len(b.own_fields)]
        perp_x == to_pos.y - last_position.y
        perp_y == to_pos.x - last_position.x
        imag1 == Pos(last_position.x + perp_x, last_position.y + perp_y)
        lt1 == Pos(Min(to_pos.x, imag1.x), Min(to_pos.y, imag1.y))
        imag2 == Pos(last_position.x - perp_x, last_position.y - perp_y)
        lt2 == Pos(Min(to_pos.x, imag2.x), Min(to_pos.y, imag2.y))
        rects == IF fill_city /\ b.own_fields # <<>>
                 THEN << Rect(scale * lt1.x + margin_offset, scale * lt1.y + margin_offset,
                              rect_size, rect_size),
                         Rect(scale * lt2.x + margin_offset, scale * lt2.y + margin_offset,
                              rect_size, rect_size) >>
                 ELSE <<>>
    IN  rects \o << Line(scale * from_pos.x + offset, scale * from_pos.y + offset,
                         scale * to_pos.x + offset, scale * to_pos.y + offset) >>

\* mutant: the line always starts at the last entry of own_fields
create_line_actions_from_last(b, to_pos, from_opt, size, fill_city) ==
    LET from_pos == b.own_fields[Len(b.own_fields)]
        offset == LineWidth \div 2
        margin == LineWidth \div 2
        scale == 2 * size
        margin_offset == margin + offset
        rect_size == scale - 2 * margin
        last_position == b.own_fields[Len(b.own_fields)]
        perp_x == to_pos.y - last_position.y
        perp_y == to_pos.x - last_position.x
        imag1 == Pos(last_position.x + perp_x, last_position.y + perp_y)
        lt1 == Pos(Min(to_pos.x, imag1.x), Min(to_pos.y, imag1.y))
        imag2 == Pos(last_position.x - perp_x, last_position.y - perp_y)
        lt2 == Pos(Min(to_pos.x, imag2.x), Min(to_pos.y, imag2.y))
        rects == IF fill_city /\ b.mode = "City" /\ b.own_fields # <<>>
                 THEN << Rect(scale * lt1.x + margin_offset, scale * lt1.y + margin_offset,
                              rect_size, rect_size),
                         Rect(scale * lt2.x + margin_offset, scale * lt2.y + margin_offset,
                              rect_size, rect_size) >>
                 ELSE <<>>
    IN  rects \o << Line(scale * from_pos.x + offset, scale * from_pos.y + offset,
                         scale * to_pos.x + offset, scale * to_pos.y + offset) >>

\* the Vec<DrawAction> returned by create_line
create_line_actions(b, to_pos, from_opt, size, fill_city) ==
    LET from_pos == IF from_opt = <<>> THEN b.pos ELSE from_opt[1]
        offset == LineWidth \div 2
        margin == LineWidth \div 2
        scale == 2 * size
        margin_offset == margin + offset
        rect_size == scale - 2 * margin
        last_position == b.own_fields[Len(b.own_fields)]
        perp_x == to_pos.y - last_position.y
        perp_y == to_pos.x - last_position.x
        imag1 == Pos(last_position.x + perp_x, last_position.y + perp_y)
        lt1 == Pos(Min(to_pos.x, imag1.x), Min(to_pos.y, imag1.y))
        imag2 == Pos(last_position.x - perp_x, last_position.y - perp_y)
        lt2 == Pos(Min(to_pos.x, imag2.x), Min(to_pos.y, imag2.y))
        rects == IF fill_city /\ b.mode = "City" /\ b.own_fields # <<>>
                 THEN << Rect(scale * lt1.x + margin_offset, scale * lt1.y + margin_offset,
                              rect_size, rect_size),
                         Rect(scale * lt2.x + margin_offset, scale * lt2.y + margin_offset,
                              rect_size, rect_size) >>
                 ELSE <<>>
    IN  rects \o << Line(scale * from_pos.x + offset, scale * from_pos.y + offset,
                         scale * to_pos.x + offset, scale * to_pos.y + offset) >>

\* mutant: the new position replaces the last entry of own_fields
create_line_branch_overwrites(b, to_pos) ==
    [b EXCEPT !.pos = to_pos,
              !.own_fields = IF b.own_fields = <<>> THEN <<to_pos>>
                             ELSE [b.own_fields EXCEPT ![Len(b.own_fields)] = to_pos]]

\* the branch after create_line (self.pos, self.own_fields)
create_line_branch(b, to_pos) ==
    [b EXCEPT !.pos = to_pos, !.own_fields = Append(b.own_fields, to_pos)]

\* mutant: the search goes through all of own_fields
move_to_new_pos_unbounded(b, cs, ccx, ccy, max_steps_back) ==
    LET n == Len(b.own_fields)
        hits == {k \in 1..n :
                    get_free_fields(b.own_fields[k], cs, ccx, ccy) # <<>>}
    IN  IF hits = {} THEN <<>>
        ELSE LET k == CHOOSE h \in hits : \A g \in hits : g <= h
             IN  <<[b EXCEPT !.pos = b.own_fields[k]]>>

\* move_to_new_pos: Some(branch at the backtracked position) or None
move_to_new_pos(b, cs, ccx, ccy, max_steps_back) ==
    LET n == Len(b.own_fields)
        start == IF n >= max_steps_back THEN n - max_steps_back ELSE 0
        hits == {k \in (start + 1)..n :
                    get_free_fields(b.own_fields[k], cs, ccx, ccy) # <<>>}
    IN  IF hits = {} THEN <<>>
        ELSE LET k == CHOOSE h \in hits : \A g \in hits : g <= h
             IN  <<[b EXCEPT !.pos = b.own_fields[k]]>>

\* find_next_move from line 388 on (the branch has free fields), given the
\* value of life_time - age.  Returns the possible results [branch, new_pos, overflow].
select_move_with(b, free_fields, life_time_branch, remaining) ==
    IF remaining < life_time_branch
    THEN {[branch |-> [b EXCEPT !.mode = "City"], new_pos |-> <<free_fields[k + 1]>>,
           overflow |-> FALSE] : k \in RandomIndex(Len(free_fields))}
    ELSE IF b.mode = "Land"
    THEN LET expand_field == Pos(b.pos.x + b.expand_direction.x,
                                 b.pos.y + b.expand_direction.y)
         IN  IF expand_field \in Range(free_fields)
             THEN LET biased == free_fields \o [k \in 1..ExpandBias |-> expand_field]
                  IN  {[branch |-> b, new_pos |-> <<biased[k + 1]>>, overflow |-> FALSE] :
                          k \in RandomIndex(Len(biased))}
             ELSE {[branch |-> [b EXCEPT !.mode = "City", !.age = a],
                    new_pos |-> <<free_fields[k + 1]>>, overflow |-> FALSE] :
                      a \in RandomUpTo(b.age), k \in RandomIndex(Len(free_fields))}
    ELSE {[branch |-> b, new_pos |-> <<free_fields[k + 1]>>, overflow |-> FALSE] :
            k \in RandomIndex(Len(free_fields))}

\* life_time - age on u32: with overflow checks an underflow panics, without
\* them it wraps to a huge value
select_move(b, free_fields, life_time_branch) ==
    IF b.age > b.life_time
    THEN {[branch |-> b, new_pos |-> <<>>, overflow |-> TRUE]}
         \cup select_move_with(b, free_fields, life_time_branch,
                               b.life_time - b.age + USIZE_WRAP)
    ELSE select_move_with(b, free_fields, life_time_branch, b.life_time - b.age)

RECURSIVE find_next_move(_, _, _, _, _, _)
find_next_move(b, cs, ccx, ccy, life_time_branch, max_steps_back) ==
    IF b.state # "Running"
    THEN {[branch |-> b, new_pos |-> <<>>, overflow |-> FALSE]}
    ELSE LET free_fields == get_free_fields(b.pos, cs, ccx, ccy)
         IN  IF free_fields = <<>>
             THEN LET moved == move_to_new_pos(b, cs, ccx, ccy, max_steps_back)
                  IN  IF moved # <<>>
                      THEN find_next_move(moved[1], cs, ccx, ccy,
                                          life_time_branch, max_steps_back)
                      ELSE {[branch |-> [b EXCEPT !.state = "Stopped"],
                             new_pos |-> <<>>, overflow |-> FALSE]}
             ELSE select_move(b, free_fields, life_time_branch)

\* set_expand_direction: the set of possible branches afterwards
set_expand_direction(b, cs, ccx, ccy) ==
    LET free_fields == get_free_fields(b.pos, cs, ccx, ccy)
    IN  IF free_fields = <<>> THEN {b}
        ELSE {[b EXCEPT !.expand_direction =
                   Pos(free_fields[k + 1].x - b.pos.x, free_fields[k + 1].y - b.pos.y)] :
                 k \in RandomIndex(Len(free_fields))}

set_main(b, life_time, lightness) ==
    [b EXCEPT !.life_time = life_time, !.lightness = lightness]

\* mutant: the guard lets a branch that has never moved branch off
branch_off_unguarded(b, size, cs, ccx, ccy, life_time_branch, fill_city) ==
    IF Len(b.own_fields) < 1
    THEN {[parent |-> b, child |-> <<>>]}
    ELSE LET search_pos == b.own_fields[Len(b.own_fields)]
             free_fields == get_free_fields(search_pos, cs, ccx, ccy)
         IN  IF free_fields = <<>>
             THEN {[parent |-> b, child |-> <<>>]}
             ELSE {LET target == free_fields[k + 1]
                       actions == create_line_actions(b, target, <<search_pos>>,
                                                      size, fill_city)
                       moved == create_line_branch(b, target)
                       parent == [moved EXCEPT !.history = b.history \o actions]
                   IN  [parent |-> parent,
                        child |-> <<NewBranch(parent.pos, life_time_branch, "branch")>>] :
                     k \in RandomIndex(Len(free_fields))}

\* mutant: a child is spawned on the last cell when that cell has no free
\* neighbour
branch_off_spawns_anyway(b, size, cs, ccx, ccy, life_time_branch, fill_city) ==
    IF Len(b.own_fields) <= 1
    THEN {[parent |-> b, child |-> <<>>]}
    ELSE LET search_pos == b.own_fields[Len(b.own_fields)]
             free_fields == get_free_fields(search_pos, cs, ccx, ccy)
         IN  IF free_fields = <<>>
             THEN {[parent |-> b,
                    child |-> <<NewBranch(search_pos, life_time_branch, "branch")>>]}
             ELSE {LET target == free_fields[k + 1]
                       actions == create_line_actions(b, target, <<search_pos>>,
                                                      size, fill_city)
                       moved == create_line_branch(b, target)
                       parent == [moved EXCEPT !.history = b.history \o actions]
                   IN  [parent |-> parent,
                        child |-> <<NewBranch(parent.pos, life_time_branch, "branch")>>] :
                     k \in RandomIndex(Len(free_fields))}

\* mutant: the child is created on the parent's last cell, not on the cell
\* the connecting line leads to
branch_off_child_at_tip(b, size, cs, ccx, ccy, life_time_branch, fill_city) ==
    IF Len(b.own_fields) <= 1
    THEN {[parent |-> b, child |-> <<>>]}
    ELSE LET search_pos == b.own_fields[Len(b.own_fields)]
             free_fields == get_free_fields(search_pos, cs, ccx, ccy)
         IN  IF free_fields = <<>>
             THEN {[parent |-> b, child |-> <<>>]}
             ELSE {LET target == free_fields[k + 1]
                       actions == create_line_actions(b, target, <<search_pos>>,
                                                      size, fill_city)
                       moved == create_line_branch(b, target)
                       parent == [moved EXCEPT !.history = b.history \o actions]
                   IN  [parent |-> parent,
                        child |-> <<NewBranch(search_pos, life_time_branch, "branch")>>] :
                     k \in RandomIndex(Len(free_fields))}

\* branch_off: the set of possible results [parent, child]; child is an Option
branch_off(b, size, cs, ccx, ccy, life_time_branch, fill_city) ==
    IF Len(b.own_fields) <= 1
    THEN {[parent |-> b, child |-> <<>>]}
    ELSE LET search_pos == b.own_fields[Len(b.own_fields)]
             free_fields == get_free_fields(search_pos, cs, ccx, ccy)
         IN  IF free_fields = <<>>
             THEN {[parent |-> b, child |-> <<>>]}
             ELSE {LET target == free_fields[k + 1]
                       actions == create_line_actions(b, target, <<search_pos>>,
                                                      size, fill_city)
                       moved == create_line_branch(b, target)
                       parent == [moved EXCEPT !.history = b.history \o actions]
                   IN  [parent |-> parent,
                        child |-> <<NewBranch(parent.pos, life_time_branch, "branch")>>] :
                     k \in RandomIndex(Len(free_fields))}

-----------------------------------------------------------------------------
(* Configuration and construction                                          *)

DefaultProbabilities ==
    [prop_city_to_land |-> PropCityToLand,
     prop_land_to_city_milli |-> PropLandToCityMilli,
     prop_branch_off |-> PropBranchOff,
     prop_branch_off_land |-> PropBranchOffLand,
     prop_branch_off_to_main |-> PropBranchOffToMain,
     branch_fall_off |-> BranchFallOff]

ZeroProbabilities ==
    [prop_city_to_land |-> 0,
     prop_land_to_city_milli |-> 0,
     prop_branch_off |-> 0,
     prop_branch_off_land |-> 0,
     prop_branch_off_to_main |-> 0,
     branch_fall_off |-> BranchFallOff]

Config(start_branches, life_time, show_reverse, fill_city, max_steps_back, reverse_actions_per_frame, probabilities) ==
    [initial_size |-> InitialSize,
     life_time |-> life_time,
     life_time_branch |-> LifeTimeBranch,
     start_branches |-> start_branches,
     show_reverse |-> show_reverse,
     fill_city |-> fill_city,
     max_steps_back |-> max_steps_back,
     reverse_actions_per_frame |-> reverse_actions_per_frame,
     p |-> probabilities]

\* the configurations explored by Spec
Configs ==
    { Config(1, MaxLifeTime, TRUE, TRUE, MaxStepsBack, MaxReverseActions,
             DefaultProbabilities),
      Config(MaxStartBranches, MaxLifeTime - 1, TRUE, FALSE, 1, 1,
             DefaultProbabilities),
      Config(1, MaxLifeTime - 1, FALSE, TRUE, MaxStepsBack, 1,
             DefaultProbabilities) }

\* window sizes (width, height) delivered by the host: grids of 2x2, 2x1 and
\* 0x2 cells for the default cell size
WindowSizes == { <<12, 12>>, <<12, 6>>, <<2, 12>> }

ZeroCells(n) == [k \in 1..n |-> 0]

\* mutant: the seeding loop leaves the seed cells unmarked
SeededUnmarked(idxs, cs0, ccx, life_time) ==
    [cells |-> [k \in 1..Len(cs0) |-> 0],
     branch_list |-> [j \in 1..Len(idxs) |->
                         NewBranch(from_idx(idxs[j], ccx), life_time, "default")],
     panicked |-> FALSE]

\* the seeding loop of initialize_with_clear for one choice of indices
Seeded(idxs, cs0, ccx, life_time) ==
    [cells |-> [k \in 1..Len(cs0) |->
                   IF \E j \in 1..Len(idxs) : to_idx(from_idx(idxs[j], ccx), ccx) + 1 = k
                   THEN 1 ELSE 0],
     branch_list |-> [j \in 1..Len(idxs) |->
                         NewBranch(from_idx(idxs[j], ccx), life_time, "default")],
     panicked |-> FALSE]

\* initialize_with_clear: possible values of (cells, branch_list) afterwards;
\* rng.random_range(0..0) panics on an empty grid
initialize_with_clear(start_branches, cs, ccx, life_time) ==
    IF start_branches > 0 /\ Len(cs) = 0
    THEN {[cells |-> cs, branch_list |-> <<>>, panicked |-> TRUE]}
    ELSE {Seeded(idxs, cs, ccx, life_time) :
            idxs \in [1..start_branches -> RandomIndex(Len(cs))]}

\* with_config for a given generator
with_config(width, height, config, generator) ==
    LET ccx == RoundHalf(width, config.initial_size)
        ccy == RoundHalf(height, config.initial_size)
    IN  /\ cfg = config
        /\ rng = generator
        /\ cell_count_x = ccx
        /\ cell_count_y = ccy
        /\ \E o \in initialize_with_clear(config.start_branches, ZeroCells(ccx * ccy),
                                          ccx, config.life_time) :
              /\ cells = o.cells
              /\ branch_list = o.branch_list
              /\ panicked = o.panicked
        /\ all_branches = <<>>
        /\ reverse_running = FALSE
        /\ fading_out = FALSE
        /\ fade_alpha = 0
        /\ reverse_time_accumulator = 0
        /\ pc = "idle"
        /\ i = 0
        /\ branch_count = 0
        /\ new_branches = <<>>
        /\ new_pos = <<>>
        /\ scaled = [num |-> 0, den |-> 1]
        /\ turn = "update"
        /\ call = [name |-> "with_config", width |-> width, height |-> height]
        /\ submitted = <<>>
        /\ ticks = 0

Init ==
    \E config \in Configs, wh \in WindowSizes :
        with_config(wh[1], wh[2], config, "random")

-----------------------------------------------------------------------------
(* update(): growth tick                                                   *)

\* rng.random_range(0.0..1.0) <= percent / 100.0, the roll in hundredths
RollPercent(roll, percent) == roll <= percent

\* rng.random_range(0.0..1.0) <= scaled / 100.0, scaled = num / den
RollScaled(roll, s) == roll * s.den <= s.num

\* rng.random_range(0.0..1.0) <= prop_land_to_city (not divided by 100)
RollLandToCity(roll, milli) == roll * 10 <= milli
\* mutant: the population multiplies the falloff instead of being added to it
scaled_branch_off_product(base, fall_off, count) ==
    [num |-> base * (1 + fall_off), den |-> fall_off * (count + 1)]

\* scaled_branch_off / scaled_branch_off_land as the fraction num / den
scaled_branch_off(base, fall_off, count) ==
    [num |-> base * (1 + fall_off), den |-> fall_off + count]

\* the threshold update() compares the roll of a branch with
branch_off_threshold(b, count) ==
    IF b.mode = "City"
    THEN scaled_branch_off(cfg.p.prop_branch_off, cfg.p.branch_fall_off, count)
    ELSE scaled_branch_off(cfg.p.prop_branch_off_land, cfg.p.branch_fall_off, count)

\* lines 796-800: enter the growth tick
UpdateGrowth ==
    /\ ~panicked /\ pc = "idle" /\ turn = "update"
    /\ call' = [name |-> "update"]
    /\ ~reverse_running /\ ~fading_out
    /\ pc' = "branching"
    /\ ticks' = ticks + 1
    /\ i' = 1
    /\ branch_count' = Len(branch_list)
    /\ new_branches' = <<>>
    /\ new_pos' = <<>>
    /\ submitted' = <<>>
    /\ UNCHANGED <<cfg, rng, gridVars, branch_list, all_branches, flagVars, scaled,
                   turn, panicked>>

\* lines 802-837: one iteration of the branching pass
BranchingStep ==
    /\ ~panicked /\ pc = "branching" /\ i <= Len(branch_list)
    /\ LET b == branch_list[i]
           thr == branch_off_threshold(b, branch_count)
       IN  /\ scaled' = thr
           /\ \E roll \in Rolls :
                IF RollScaled(roll, thr)
                THEN \E r \in branch_off(b, cfg.initial_size, cells, cell_count_x,
                                         cell_count_y, cfg.life_time_branch,
                                         cfg.fill_city) :
                        /\ branch_list' = [branch_list EXCEPT ![i] = r.parent]
                        /\ IF r.child = <<>>
                           THEN new_branches' = new_branches
                           ELSE \E roll2 \in Rolls :
                                  new_branches' = Append(new_branches,
                                      IF RollPercent(roll2, cfg.p.prop_branch_off_to_main)
                                      THEN set_main(r.child[1], cfg.life_time, "default")
                                      ELSE r.child[1])
                ELSE UNCHANGED <<branch_list, new_branches>>
    /\ i' = i + 1
    /\ UNCHANGED <<call, cfg, rng, ticks, gridVars, all_branches, flagVars, pc, branch_count,
                   new_pos, turn, submitted, panicked>>

\* mutant: the children are put in front of the existing branches
BranchingDonePrepends ==
    /\ ~panicked /\ pc = "branching" /\ i > Len(branch_list)
    /\ branch_list' = new_branches \o branch_list
    /\ new_branches' = <<>>
    /\ i' = 1
    /\ pc' = "stepping"
    /\ UNCHANGED <<call, cfg, rng, ticks, gridVars, all_branches, flagVars, branch_count,
                   new_pos, scaled, turn, submitted, panicked>>

\* line 840: self.branch_list.extend(new_branches)
BranchingDone ==
    /\ ~panicked /\ pc = "branching" /\ i > Len(branch_list)
    /\ branch_list' = branch_list \o new_branches
    /\ new_branches' = <<>>
    /\ i' = 1
    /\ pc' = "stepping"
    /\ UNCHANGED <<call, cfg, rng, ticks, gridVars, all_branches, flagVars, branch_count,
                   new_pos, scaled, turn, submitted, panicked>>

\* mutant: a branch dies only once its age has passed life_time
death_check_strict(b) == b.age > b.life_time

\* line 844: the death check of the stepping pass
death_check(b) == b.age >= b.life_time

\* mutant: the re-roll draws from 0..=life_time
mode_transition_reroll_life(b) ==
    IF b.mode = "City"
    THEN UNION { IF RollPercent(r, cfg.p.prop_city_to_land)
                 THEN set_expand_direction([b EXCEPT !.mode = "Land"], cells,
                                           cell_count_x, cell_count_y)
                 ELSE {b} : r \in Rolls }
    ELSE UNION { IF RollLandToCity(r, cfg.p.prop_land_to_city_milli)
                 THEN {[b EXCEPT !.mode = "City", !.age = a] : a \in RandomUpTo(b.life_time)}
                 ELSE {b} : r \in Rolls }

\* mutant: the re-roll draws from 0..=age + 1
mode_transition_reroll_up(b) ==
    IF b.mode = "City"
    THEN UNION { IF RollPercent(r, cfg.p.prop_city_to_land)
                 THEN set_expand_direction([b EXCEPT !.mode = "Land"], cells,
                                           cell_count_x, cell_count_y)
                 ELSE {b} : r \in Rolls }
    ELSE UNION { IF RollLandToCity(r, cfg.p.prop_land_to_city_milli)
                 THEN {[b EXCEPT !.mode = "City", !.age = a] : a \in RandomUpTo(b.age + 1)}
                 ELSE {b} : r \in Rolls }

\* lines 849-865: the possible branches after the mode transitions
mode_transition(b) ==
    IF b.mode = "City"
    THEN UNION { IF RollPercent(r, cfg.p.prop_city_to_land)
                 THEN set_expand_direction([b EXCEPT !.mode = "Land"], cells,
                                           cell_count_x, cell_count_y)
                 ELSE {b} : r \in Rolls }
    ELSE UNION { IF RollLandToCity(r, cfg.p.prop_land_to_city_milli)
                 THEN {[b EXCEPT !.mode = "City", !.age = a] : a \in RandomUpTo(b.age)}
                 ELSE {b} : r \in Rolls }

\* lines 843-874: death check, mode transitions and find_next_move of branch i
StepSelect ==
    /\ ~panicked /\ pc = "stepping" /\ i <= Len(branch_list)
    /\ LET b == branch_list[i]
       IN  IF death_check(b)
           THEN /\ branch_list' = [branch_list EXCEPT ![i].state = "Stopped"]
                /\ i' = i + 1
                /\ UNCHANGED <<pc, new_pos, panicked>>
           ELSE \E b2 \in mode_transition(b) :
                \E r \in find_next_move(b2, cells, cell_count_x, cell_count_y,
                                        cfg.life_time_branch, cfg.max_steps_back) :
                   /\ branch_list' = [branch_list EXCEPT ![i] = r.branch]
                   /\ panicked' = r.overflow
                   /\ new_pos' = r.new_pos
                   /\ IF r.new_pos # <<>>
                      THEN pc' = "commit" /\ i' = i
                      ELSE pc' = pc /\ i' = i + 1
    /\ UNCHANGED <<call, cfg, rng, ticks, gridVars, all_branches, flagVars, branch_count,
                   new_branches, scaled, turn, submitted>>
\* mutant: the grid is rebuilt with only the new cell set
mark_occupied_only(cs, pos, ccx) ==
    [k \in 1..Len(cs) |-> IF k = to_idx(pos, ccx) + 1 THEN 1 ELSE 0]

\* cells[new_pos.to_idx(cell_count_x)] = 1
mark_occupied(cs, pos, ccx) == [cs EXCEPT ![to_idx(pos, ccx) + 1] = 1]

\* lines 875-878: commit the move of branch i
Commit ==
    /\ ~panicked /\ pc = "commit"
    /\ LET b == branch_list[i]
           to == new_pos[1]
           actions == create_line_actions(b, to, <<>>, cfg.initial_size, cfg.fill_city)
           moved == create_line_branch(b, to)
       IN  /\ branch_list' = [branch_list EXCEPT ![i] =
                                 [moved EXCEPT !.history = b.history \o actions,
                                               !.age = b.age + 1]]
           /\ cells' = mark_occupied(cells, to, cell_count_x)
    /\ new_pos' = <<>>
    /\ i' = i + 1
    /\ pc' = "stepping"
    /\ UNCHANGED <<call, cfg, rng, ticks, cell_count_x, cell_count_y, all_branches, flagVars,
                   branch_count, new_branches, scaled, turn, submitted, panicked>>

IsRunning(b) == b.state = "Running"
IsStopped(b) == b.state # "Running"

\* mutant: reverse mode starts as soon as some branch has stopped
CollectStoppedAny ==
    /\ ~panicked /\ pc = "stepping" /\ i > Len(branch_list)
    /\ branch_list' = SelectSeq(branch_list, IsRunning)
    /\ all_branches' = all_branches \o SelectSeq(branch_list, IsStopped)
    /\ IF all_branches' # <<>>
       THEN reverse_running' = TRUE /\ reverse_time_accumulator' = 0
       ELSE UNCHANGED <<reverse_running, reverse_time_accumulator>>
    /\ pc' = "idle"
    /\ i' = 0
    /\ branch_count' = 0
    /\ scaled' = [num |-> 0, den |-> 1]
    /\ turn' = "render"
    /\ UNCHANGED <<call, cfg, rng, ticks, gridVars, fading_out, fade_alpha, new_branches, new_pos,
                   submitted, panicked>>

\* mutant: the stopped branches stay in the active list
CollectStoppedKeepsAll ==
    /\ ~panicked /\ pc = "stepping" /\ i > Len(branch_list)
    /\ branch_list' = branch_list
    /\ all_branches' = all_branches
    /\ IF branch_list' = <<>>
       THEN reverse_running' = TRUE /\ reverse_time_accumulator' = 0
       ELSE UNCHANGED <<reverse_running, reverse_time_accumulator>>
    /\ pc' = "idle"
    /\ i' = 0
    /\ branch_count' = 0
    /\ scaled' = [num |-> 0, den |-> 1]
    /\ turn' = "render"
    /\ UNCHANGED <<call, cfg, rng, ticks, gridVars, fading_out, fade_alpha, new_branches, new_pos,
                   submitted, panicked>>

\* mutant: the tick that empties the active list does not start reverse mode
CollectStoppedNoReverse ==
    /\ ~panicked /\ pc = "stepping" /\ i > Len(branch_list)
    /\ branch_list' = SelectSeq(branch_list, IsRunning)
    /\ all_branches' = all_branches \o SelectSeq(branch_list, IsStopped)
    /\ UNCHANGED <<reverse_running, reverse_time_accumulator>>
    /\ pc' = "idle"
    /\ i' = 0
    /\ branch_count' = 0
    /\ scaled' = [num |-> 0, den |-> 1]
    /\ turn' = "render"
    /\ UNCHANGED <<call, cfg, rng, ticks, gridVars, fading_out, fade_alpha, new_branches, new_pos,
                   submitted, panicked>>

\* lines 882-903: move the stopped branches, enter reverse mode
CollectStopped ==
    /\ ~panicked /\ pc = "stepping" /\ i > Len(branch_list)
    /\ branch_list' = SelectSeq(branch_list, IsRunning)
    /\ all_branches' = all_branches \o SelectSeq(branch_list, IsStopped)
    /\ IF branch_list' = <<>>
       THEN reverse_running' = TRUE /\ reverse_time_accumulator' = 0
       ELSE UNCHANGED <<reverse_running, reverse_time_accumulator>>
    /\ pc' = "idle"
    /\ i' = 0
    /\ branch_count' = 0
    /\ scaled' = [num |-> 0, den |-> 1]
    /\ turn' = "render"
    /\ UNCHANGED <<call, cfg, rng, ticks, gridVars, fading_out, fade_alpha, new_branches, new_pos,
                   submitted, panicked>>

-----------------------------------------------------------------------------
(* update(): reverse mode and fade-out                                     *)

\* host frame times, in units of 1/60 s
DeltaTimes == {0, 1, 2, 45}
\* mutant: the quota is rounded down
reverse_points_per_branch_floor(actions_per_update, branches) ==
    actions_per_update \div Max(Len(branches), 1)

\* reverse_points_per_branch
reverse_points_per_branch(actions_per_update, branches) ==
    CeilDiv(actions_per_update, Max(Len(branches), 1))

\* mutant: the operations are drained from the head of the history
drain_branch_from_head(b, quota) ==
    LET to_remove == Min(Len(b.history), quota)
        new_len == Len(b.history) - to_remove
    IN  IF new_len < Len(b.history)
        THEN [b EXCEPT !.pending_erasures =
                           b.pending_erasures \o SubSeq(b.history, 1, to_remove),
                       !.history = SubSeq(b.history, to_remove + 1, Len(b.history))]
        ELSE b

\* the retain_mut closure up to its return value: the branch after the drain
drain_branch(b, quota) ==
    LET to_remove == Min(Len(b.history), quota)
        new_len == Len(b.history) - to_remove
    IN  IF new_len < Len(b.history)
        THEN [b EXCEPT !.pending_erasures =
                           b.pending_erasures \o SubSeq(b.history, new_len + 1, Len(b.history)),
                       !.history = SubSeq(b.history, 1, new_len)]
        ELSE b

\* mutant: a branch is kept as long as it has erasures pending
HasHistoryOrPending(b) == b.history # <<>> \/ b.pending_erasures # <<>>

\* the return value of the retain_mut closure
HasHistory(b) == b.history # <<>>

\* all_branches.retain_mut(..)
retain_drained(branches, quota) ==
    SelectSeq([k \in 1..Len(branches) |-> drain_branch(branches[k], quota)], HasHistory)

\* mutant: the reverse phase ends while one branch still holds history
UpdateReverseEndsEarly(delta_time) ==
    /\ ~panicked /\ pc = "idle" /\ turn = "update"
    /\ call' = [name |-> "update"]
    /\ reverse_running
    /\ IF ~cfg.show_reverse
       THEN UNCHANGED <<all_branches, flagVars>>
       ELSE LET acc == reverse_time_accumulator + delta_time
                due == acc >= REVERSE_UPDATE_INTERVAL
                acc2 == IF due THEN acc - REVERSE_UPDATE_INTERVAL ELSE acc
                quota == reverse_points_per_branch(cfg.reverse_actions_per_frame,
                                                   all_branches)
                rest == IF due THEN retain_drained(all_branches, quota)
                        ELSE all_branches
            IN  /\ acc2 <= MaxAccumulator
                /\ reverse_time_accumulator' = acc2
                /\ all_branches' = rest
                /\ IF Len(rest) <= 1
                   THEN reverse_running' = FALSE /\ fading_out' = TRUE /\ fade_alpha' = 0
                   ELSE UNCHANGED <<reverse_running, fading_out, fade_alpha>>
    /\ turn' = "render"
    /\ submitted' = <<>>
    /\ UNCHANGED <<cfg, rng, ticks, gridVars, branch_list, localVars, panicked>>

\* mutant: the fade-out starts with reverse_running left set
UpdateReverseKeepsFlag(delta_time) ==
    /\ ~panicked /\ pc = "idle" /\ turn = "update"
    /\ call' = [name |-> "update"]
    /\ reverse_running
    /\ IF ~cfg.show_reverse
       THEN UNCHANGED <<all_branches, flagVars>>
       ELSE LET acc == reverse_time_accumulator + delta_time
                due == acc >= REVERSE_UPDATE_INTERVAL
                acc2 == IF due THEN acc - REVERSE_UPDATE_INTERVAL ELSE acc
                quota == reverse_points_per_branch(cfg.reverse_actions_per_frame,
                                                   all_branches)
                rest == IF due THEN retain_drained(all_branches, quota)
                        ELSE all_branches
            IN  /\ acc2 <= MaxAccumulator
                /\ reverse_time_accumulator' = acc2
                /\ all_branches' = rest
                /\ IF rest = <<>>
                   THEN reverse_running' = TRUE /\ fading_out' = TRUE /\ fade_alpha' = 0
                   ELSE UNCHANGED <<reverse_running, fading_out, fade_alpha>>
    /\ turn' = "render"
    /\ submitted' = <<>>
    /\ UNCHANGED <<cfg, rng, ticks, gridVars, branch_list, localVars, panicked>>

\* mutant: the reverse engine runs whatever show_reverse says
UpdateReverseUnguarded(delta_time) ==
    /\ ~panicked /\ pc = "idle" /\ turn = "update"
    /\ call' = [name |-> "update"]
    /\ reverse_running
    /\ IF FALSE
       THEN UNCHANGED <<all_branches, flagVars>>
       ELSE LET acc == reverse_time_accumulator + delta_time
                due == acc >= REVERSE_UPDATE_INTERVAL
                acc2 == IF due THEN acc - REVERSE_UPDATE_INTERVAL ELSE acc
                quota == reverse_points_per_branch(cfg.reverse_actions_per_frame,
                                                   all_branches)
                rest == IF due THEN retain_drained(all_branches, quota)
                        ELSE all_branches
            IN  /\ acc2 <= MaxAccumulator
                /\ reverse_time_accumulator' = acc2
                /\ all_branches' = rest
                /\ IF rest = <<>>
                   THEN reverse_running' = FALSE /\ fading_out' = TRUE /\ fade_alpha' = 0
                   ELSE UNCHANGED <<reverse_running, fading_out, fade_alpha>>
    /\ turn' = "render"
    /\ submitted' = <<>>
    /\ UNCHANGED <<cfg, rng, ticks, gridVars, branch_list, localVars, panicked>>

\* lines 718-776
UpdateReverse(delta_time) ==
    /\ ~panicked /\ pc = "idle" /\ turn = "update"
    /\ call' = [name |-> "update"]
    /\ reverse_running
    /\ IF ~cfg.show_reverse
       THEN UNCHANGED <<all_branches, flagVars>>
       ELSE LET acc == reverse_time_accumulator + delta_time
                due == acc >= REVERSE_UPDATE_INTERVAL
                acc2 == IF due THEN acc - REVERSE_UPDATE_INTERVAL ELSE acc
                quota == reverse_points_per_branch(cfg.reverse_actions_per_frame,
                                                   all_branches)
                rest == IF due THEN retain_drained(all_branches, quota)
                        ELSE all_branches
            IN  /\ acc2 <= MaxAccumulator
                /\ reverse_time_accumulator' = acc2
                /\ all_branches' = rest
                /\ IF rest = <<>>
                   THEN reverse_running' = FALSE /\ fading_out' = TRUE /\ fade_alpha' = 0
                   ELSE UNCHANGED <<reverse_running, fading_out, fade_alpha>>
    /\ turn' = "render"
    /\ submitted' = <<>>
    /\ UNCHANGED <<cfg, rng, ticks, gridVars, branch_list, localVars, panicked>>

\* on_resize, lines 1064-1068
resize_start_branches(config) ==
    IF config.start_branches > 0 THEN config.start_branches ELSE ResizeFallbackBranches
\* mutant: the stored branches survive the reinitialisation
ReinitializeKeepStored(start_branches, cs, ccx) ==
    \E o \in initialize_with_clear(start_branches, cs, ccx, cfg.life_time) :
        /\ cells' = o.cells
        /\ branch_list' = o.branch_list
        /\ panicked' = o.panicked
        /\ all_branches' = all_branches
        /\ reverse_running' = FALSE
        /\ fading_out' = FALSE
        /\ fade_alpha' = 0
        /\ reverse_time_accumulator' = 0
        /\ ticks' = 0

\* the assignments of initialize_with_clear on the scene
Reinitialize(start_branches, cs, ccx) ==
    \E o \in initialize_with_clear(start_branches, cs, ccx, cfg.life_time) :
        /\ cells' = o.cells
        /\ branch_list' = o.branch_list
        /\ panicked' = o.panicked
        /\ all_branches' = <<>>
        /\ reverse_running' = FALSE
        /\ fading_out' = FALSE
        /\ fade_alpha' = 0
        /\ reverse_time_accumulator' = 0
        /\ ticks' = 0

\* lines 779-794
UpdateFade(delta_time) ==
    /\ ~panicked /\ pc = "idle" /\ turn = "update"
    /\ call' = [name |-> "update"]
    /\ ~reverse_running /\ fading_out
    /\ IF fade_alpha + delta_time >= FADE_DURATION
       THEN /\ Reinitialize(cfg.start_branches, ZeroCells(Len(cells)), cell_count_x)
            /\ UNCHANGED <<cell_count_x, cell_count_y>>
       ELSE /\ fade_alpha' = fade_alpha + delta_time
            /\ UNCHANGED <<gridVars, branch_list, all_branches, reverse_running,
                           fading_out, reverse_time_accumulator, panicked, ticks>>
    /\ turn' = "render"
    /\ submitted' = <<>>
    /\ UNCHANGED <<cfg, rng, localVars>>

-----------------------------------------------------------------------------
(* render() and on_resize()                                                *)

Batch(kind, actions) == [kind |-> kind, actions |-> actions]

HasPending(b) == b.pending_erasures # <<>>

\* lines 972-987: one erase batch per branch with pending erasures
erase_batches(branches) ==
    LET owing == SelectSeq(branches, HasPending)
    IN  [k \in 1..Len(owing) |-> Batch("erase", owing[k].pending_erasures)]

\* history[rendered_count..] of every branch, in list order
new_actions(branches) ==
    Concat([k \in 1..Len(branches) |->
               SubSeq(branches[k].history, branches[k].rendered_count + 1,
                      Len(branches[k].history))])

mark_rendered(branches) ==
    [k \in 1..Len(branches) |->
        [branches[k] EXCEPT !.rendered_count = Len(branches[k].history)]]

clear_pending(branches) ==
    [k \in 1..Len(branches) |-> [branches[k] EXCEPT !.pending_erasures = <<>>]]

\* is_animating, lines 699-709
is_animating ==
    IF reverse_running \/ fading_out THEN TRUE
    ELSE \E j \in 1..Len(branch_list) : branch_list[j].state = "Running"

\* lines 957-1056
Render ==
    /\ ~panicked /\ pc = "idle" /\ turn = "render"
    /\ call' = [name |-> "render"]
    /\ IF reverse_running
       THEN /\ submitted' = erase_batches(all_branches)
            /\ all_branches' = clear_pending(all_branches)
            /\ UNCHANGED branch_list
       ELSE LET ops == new_actions(all_branches) \o new_actions(branch_list)
                draw == IF ops # <<>> THEN <<Batch("draw", ops)>> ELSE <<>>
                fade == IF fading_out /\ fade_alpha > 0
                        THEN <<Batch("fade", <<>>)>> ELSE <<>>
            IN  /\ submitted' = draw \o fade
                /\ all_branches' = mark_rendered(all_branches)
                /\ branch_list' = mark_rendered(branch_list)
    /\ turn' = "update"
    /\ UNCHANGED <<cfg, rng, ticks, gridVars, flagVars, localVars, panicked>>

\* lines 1058-1070 (App::on_resize forwards the host's resize between frames)
on_resize(width, height) ==
    /\ ~panicked /\ pc = "idle" /\ turn = "update"
    /\ call' = [name |-> "on_resize", width |-> width, height |-> height]
    /\ UNCHANGED <<cfg, rng, localVars, turn, submitted>>
    /\ LET ccx == RoundHalf(width, cfg.initial_size)
           ccy == RoundHalf(height, cfg.initial_size)
       IN  /\ cell_count_x' = ccx
           /\ cell_count_y' = ccy
           /\ Reinitialize(resize_start_branches(cfg), ZeroCells(ccx * ccy), ccx)

Resize == \E wh \in WindowSizes : on_resize(wh[1], wh[2])

Update ==
    \/ UpdateGrowth
    \/ \E dt \in DeltaTimes : UpdateReverse(dt)
    \/ \E dt \in DeltaTimes : UpdateFade(dt)

Next ==
    \/ Update
    \/ BranchingStep
    \/ BranchingDone
    \/ StepSelect
    \/ Commit
    \/ CollectStopped
    \/ Render
    \/ Resize

Spec == Init /\ [][Next]_vars

-----------------------------------------------------------------------------
(* The deterministic scenario: a 4x4 grid, one seed, all probabilities 0,  *)
(* a scripted generator (every index choice is the first one, no roll      *)
(* succeeds), no resize.                                                   *)

\* life_time of the scenario ("large enough": more than the 15 moves of the walk)
ScenarioLifeTime == 20

ScenarioInit ==
    \E fill \in BOOLEAN, msb \in 1..MaxStepsBack, rapf \in 1..MaxReverseActions :
        with_config(24, 24,
                    Config(1, ScenarioLifeTime, TRUE, fill, msb, rapf, ZeroProbabilities),
                    "scripted")

ScenarioNext ==
    \/ Update
    \/ BranchingStep
    \/ BranchingDone
    \/ StepSelect
    \/ Commit
    \/ CollectStopped
    \/ Render

ScenarioSpec == ScenarioInit /\ [][ScenarioNext]_vars

-----------------------------------------------------------------------------
(* The frame loop alone: show_reverse on, at least one seed, a non-empty   *)
(* grid, every frame with a positive delta time, no resize.  The host's    *)
(* timer keeps delivering frames, hence weak fairness of the frame steps.  *)

\* frames of one reverse interval and of half the fade duration
PositiveDeltaTimes == {dt \in DeltaTimes : dt = REVERSE_UPDATE_INTERVAL \/ 2 * dt = FADE_DURATION}

LiveConfigs ==
    {c \in Configs : c.show_reverse /\ c.start_branches >= 1
                     /\ c.reverse_actions_per_frame >= 1}

LiveWindowSizes ==
    {wh \in WindowSizes : RoundHalf(wh[1], InitialSize) * RoundHalf(wh[2], InitialSize) > 0}

LiveInit ==
    \E config \in LiveConfigs, wh \in LiveWindowSizes :
        with_config(wh[1], wh[2], config, "random")

LiveNext ==
    \/ UpdateGrowth
    \/ \E dt \in PositiveDeltaTimes : UpdateReverse(dt)
    \/ \E dt \in PositiveDeltaTimes : UpdateFade(dt)
    \/ BranchingStep
    \/ BranchingDone
    \/ StepSelect
    \/ Commit
    \/ CollectStopped
    \/ Render

LiveSpec == LiveInit /\ [][LiveNext]_vars /\ WF_vars(LiveNext)

-----------------------------------------------------------------------------
(* Branching on a wider grid: 3x2 cells, one seed, a short life_time, no   *)
(* fill rectangles, no resize.  Here a child branch finds free cells of    *)
(* its own, so secondary branches move and store history.                  *)

\* config.life_time of the wide-grid runs
WideLifeTime == 2

WideInit ==
    with_config(18, 12,
                Config(1, WideLifeTime, TRUE, FALSE, 1, 1, DefaultProbabilities),
                "random")

WideNext ==
    \/ UpdateGrowth
    \/ \E dt \in PositiveDeltaTimes : UpdateReverse(dt)
    \/ \E dt \in PositiveDeltaTimes : UpdateFade(dt)
    \/ BranchingStep
    \/ BranchingDone
    \/ StepSelect
    \/ Commit
    \/ CollectStopped
    \/ Render

WideSpec == WideInit /\ [][WideNext]_vars

-----------------------------------------------------------------------------
(* get_free_fields on its own: every grid of up to MaxProbeSide cells a    *)
(* side with any occupancy, probed at every in-bounds position.            *)

\* largest cell_count_x / cell_count_y of the probed grids
MaxProbeSide == 3

FreeFieldsInit ==
    /\ cfg = Config(1, MaxLifeTime, TRUE, TRUE, MaxStepsBack, MaxReverseActions,
                    DefaultProbabilities)
    /\ rng = "random"
    /\ cell_count_x \in 1..MaxProbeSide
    /\ cell_count_y \in 1..MaxProbeSide
    /\ cells \in [1..(cell_count_x * cell_count_y) -> {0, 1}]
    /\ branch_list = <<>>
    /\ all_branches = <<>>
    /\ reverse_running = FALSE
    /\ fading_out = FALSE
    /\ fade_alpha = 0
    /\ reverse_time_accumulator = 0
    /\ pc = "idle"
    /\ i = 0
    /\ branch_count = 0
    /\ new_branches = <<>>
    /\ new_pos = <<>>
    /\ scaled = [num |-> 0, den |-> 1]
    /\ turn = "update"
    /\ call = [name |-> "grid"]
    /\ submitted = <<>>
    /\ panicked = FALSE
    /\ ticks = 0

\* one call of get_free_fields on a grid; call records the argument and the result
ProbeFreeFields ==
    /\ call.name = "grid"
    /\ \E x \in 0..(cell_count_x - 1), y \in 0..(cell_count_y - 1) :
          call' = [name |-> "get_free_fields", pos |-> Pos(x, y),
                   result |-> get_free_fields(Pos(x, y), cells, cell_count_x,
                                              cell_count_y)]
    /\ UNCHANGED <<cfg, rng, ticks, gridVars, branch_list, all_branches, flagVars, localVars,
                   turn, submitted, panicked>>

FreeFieldsSpec == FreeFieldsInit /\ [][ProbeFreeFields]_vars

-----------------------------------------------------------------------------
(* actions_to_polyline_operations on its own: every sequence of up to      *)
(* MaxActions draw actions over a few cells, converted in one call.        *)

\* longest converted action sequence
MaxActions == 4

\* EPSILON = 0.001, as the denominator of its square
EPSILON_SQ_DEN == 1000000

Vector2(x, y) == [X |-> x, Y |-> y]

\* DrawOperation::line, ::polyline and ::filled_rect (colour and thickness left out)
line(start, end) == [kind |-> "Line", start |-> start, end |-> end]

polyline(points) == [kind |-> "Polyline", points |-> points]

filled_rect(left, top, right, bottom) ==
    [kind |-> "FilledRect", left |-> left, top |-> top, right |-> right,
     bottom |-> bottom]

\* mutant: a pending single segment is thrown away
flush_polyline_drops_single(points, operations) ==
    IF Len(points) >= 2
    THEN IF Len(points) = 2
         THEN operations
         ELSE Append(operations, polyline(points))
    ELSE operations

\* flush_polyline: operations afterwards (points is cleared by the caller's
\* next state)
flush_polyline(points, operations) ==
    IF Len(points) >= 2
    THEN IF Len(points) = 2
         THEN Append(operations, line(points[1], points[2]))
         ELSE Append(operations, polyline(points))
    ELSE operations

\* distance < EPSILON, on squares
within_epsilon(last_end, start) ==
    LET dx == last_end.X - start.X
        dy == last_end.Y - start.Y
    IN  (dx * dx + dy * dy) * EPSILON_SQ_DEN < 1

\* the for loop of actions_to_polyline_operations and the final flush
RECURSIVE polyline_loop(_, _, _)
polyline_loop(actions, points, operations) ==
    IF actions = <<>>
    THEN flush_polyline(points, operations)
    ELSE LET action == Head(actions)
         IN  IF action.kind = "Line"
             THEN LET start == Vector2(action.from_x, action.from_y)
                      end == Vector2(action.to_x, action.to_y)
                  IN  IF points = <<>>
                      THEN polyline_loop(Tail(actions), <<start, end>>, operations)
                      ELSE IF within_epsilon(points[Len(points)], start)
                      THEN polyline_loop(Tail(actions), Append(points, end), operations)
                      ELSE polyline_loop(Tail(actions), <<start, end>>,
                                         flush_polyline(points, operations))
             ELSE polyline_loop(Tail(actions), <<>>,
                                Append(flush_polyline(points, operations),
                                       filled_rect(action.x, action.y,
                                                   action.x + action.width,
                                                   action.y + action.height)))

actions_to_polyline_operations(actions, operations) ==
    polyline_loop(actions, <<>>, operations)

\* the cells whose centres the probed lines join
ProbeCells == {Pos(0, 0), Pos(1, 0), Pos(1, 1)}

\* the actions create_line makes between and around these cells
ProbeActions ==
    LET scale == 2 * InitialSize
        offset == LineWidth \div 2
        inset == LineWidth
    IN  {Line(scale * pq[1].x + offset, scale * pq[1].y + offset,
              scale * pq[2].x + offset, scale * pq[2].y + offset) :
            pq \in {c \in ProbeCells \X ProbeCells : c[1] # c[2]}}
        \cup {Rect(scale * p.x + inset, scale * p.y + inset,
                   scale - LineWidth, scale - LineWidth) : p \in {Pos(0, 0), Pos(1, 0)}}

PolylineInit ==
    /\ cfg = Config(1, MaxLifeTime, TRUE, TRUE, MaxStepsBack, MaxReverseActions,
                    DefaultProbabilities)
    /\ rng = "random"
    /\ cell_count_x = 2
    /\ cell_count_y = 2
    /\ cells = ZeroCells(4)
    /\ branch_list = <<>>
    /\ all_branches = <<>>
    /\ reverse_running = FALSE
    /\ fading_out = FALSE
    /\ fade_alpha = 0
    /\ reverse_time_accumulator = 0
    /\ pc = "idle"
    /\ i = 0
    /\ branch_count = 0
    /\ new_branches = <<>>
    /\ new_pos = <<>>
    /\ scaled = [num |-> 0, den |-> 1]
    /\ turn = "render"
    /\ \E n \in 0..MaxActions : \E actions \in [1..n -> ProbeActions] :
          call = [name |-> "actions", actions |-> actions]
    /\ submitted = <<>>
    /\ panicked = FALSE
    /\ ticks = 0

\* one call of actions_to_polyline_operations with an empty operations vector;
\* call records the argument and the result
ConvertActions ==
    /\ call.name = "actions"
    /\ call' = [name |-> "actions_to_polyline_operations",
                actions |-> call.actions,
                operations |-> actions_to_polyline_operations(call.actions, <<>>)]
    /\ UNCHANGED <<cfg, rng, ticks, gridVars, branch_list, all_branches, flagVars, localVars,
                   turn, submitted, panicked>>

PolylineSpec == PolylineInit /\ [][ConvertActions]_vars

-----------------------------------------------------------------------------
(* Shared vocabulary of the properties                                     *)

Occupied(cs) == {k \in 1..Len(cs) : cs[k] = 1}

\* the step is a call of on_resize
ResizeStep == pc = "idle" /\ turn = "update" /\ call'.name = "on_resize"

\* an update() call that returns in this step, made in reverse mode
ReverseUpdateStep ==
    pc = "idle" /\ turn = "update" /\ reverse_running /\ turn' = "render"

\* the update() call in which the fade-out ends and the scene reinitialises
FadeReinitStep ==
    pc = "idle" /\ turn = "update" /\ fading_out /\ ~fading_out' /\ turn' = "render"

IsFresh(b, life_time) == b = NewBranch(b.pos, life_time, "default")

OpsHeld(branches) ==
    SumLens([k \in 1..Len(branches) |->
                branches[k].history \o branches[k].pending_erasures])

-----------------------------------------------------------------------------
(* C1: once a cell is occupied it stays occupied in every later state of   *)
(* the cycle; only a full reinitialisation (the end of the fade-out or a   *)
(* resize) clears cells.                                                   *)
OccupancyMonotone ==
    [][ \/ /\ Len(cells') = Len(cells)
           /\ \A k \in Occupied(cells) : cells'[k] = 1
        \/ FadeReinitStep
        \/ ResizeStep ]_vars

\* a cell is still occupied after reverse steps and fade steps have run
OccupancyMonotoneWitness ==
    fading_out /\ fade_alpha > 0 /\ Occupied(cells) # {}

-----------------------------------------------------------------------------
(* C2: the destination of every committed move is free right before the    *)
(* commit and occupied right after it; the commit sets the position to the *)
(* destination, appends exactly the destination to own_fields and adds 1   *)
(* to age.                                                                 *)
NoOverlap ==
    [][ pc = "commit" =>
          LET to == new_pos[1]
              k == to_idx(to, cell_count_x) + 1
          IN  /\ cells[k] = 0
              /\ cells'[k] = 1
              /\ branch_list'[i].pos = to
              /\ branch_list'[i].own_fields = Append(branch_list[i].own_fields, to)
              /\ branch_list'[i].age = branch_list[i].age + 1 ]_vars

\* two branches have each committed their first move in the same tick
NoOverlapWitness ==
    /\ pc = "stepping" /\ i = 3
    /\ \A k \in 1..2 : /\ branch_list[k].age = 1
                       /\ branch_list[k].rendered_count = 0
                       /\ Len(branch_list[k].own_fields) = 2
    /\ branch_list[1].pos # branch_list[2].pos

-----------------------------------------------------------------------------
(* C3: the operations a reverse step hands to pending_erasures are the     *)
(* removed tail of the history in reverse (last drawn, first erased).      *)
KeepsHistory(b) ==
    Len(b.history) > reverse_points_per_branch(cfg.reverse_actions_per_frame,
                                               all_branches)

LifoEraseLaw ==
    [][ ReverseUpdateStep /\ all_branches' # all_branches =>
          LET kept == SelectSeq(all_branches, KeepsHistory)
          IN  \A j \in 1..Len(kept) :
                 j <= Len(all_branches') =>
                    all_branches'[j].pending_erasures =
                       kept[j].pending_erasures
                       \o Reverse(SubSeq(kept[j].history,
                                         Len(all_branches'[j].history) + 1,
                                         Len(kept[j].history))) ]_vars

-----------------------------------------------------------------------------
(* C4: no operation leaves the scene in an update() of the reverse phase:  *)
(* whatever is removed from a history is held in pending_erasures until a  *)
(* render submits it for erasure.                                          *)
EveryOpErased ==
    [][ ReverseUpdateStep => OpsHeld(all_branches') = OpsHeld(all_branches) ]_vars

-----------------------------------------------------------------------------
(* C5: after the reinitialisation that ends a cycle exactly start_branches *)
(* cells are occupied, the active list holds start_branches fresh seed     *)
(* branches on those cells, and nothing is stored.                         *)
CycleIdempotence ==
    [][ FadeReinitStep =>
          /\ Cardinality(Occupied(cells')) = cfg.start_branches
          /\ Len(branch_list') = cfg.start_branches
          /\ \A j \in 1..Len(branch_list') :
                /\ IsFresh(branch_list'[j], cfg.life_time)
                /\ cells'[to_idx(branch_list'[j].pos, cell_count_x) + 1] = 1
          /\ all_branches' = <<>> ]_vars

-----------------------------------------------------------------------------
(* C6: the grow/erase cycle repeats forever: growth leads to reverse mode, *)
(* reverse mode leads to the fade-out (all histories empty), and the       *)
(* fade-out leads to a fresh growth phase.                                 *)
GrowthPhase == ~reverse_running /\ ~fading_out

CycleRepeats ==
    /\ GrowthPhase ~> reverse_running
    /\ reverse_running ~> (fading_out /\ all_branches = <<>>)
    /\ fading_out ~> (GrowthPhase /\ branch_list # <<>>)

\* the state right after the reinitialisation that closes a cycle
CycleRepeatsWitness ==
    /\ call.name = "update" /\ turn = "render" /\ GrowthPhase
    /\ branch_list # <<>>
    /\ \A j \in 1..Len(branch_list) : IsFresh(branch_list[j], cfg.life_time)

-----------------------------------------------------------------------------
(* C7: a branch whose own_fields has length 1 never branches off: its      *)
(* iteration of the branching pass changes neither the branch, the list of *)
(* children nor the grid.                                                  *)
BranchOffPrecondition ==
    [][ /\ pc = "branching" /\ i <= Len(branch_list)
        /\ Len(branch_list[i].own_fields) = 1
        => UNCHANGED <<branch_list, new_branches, cells, all_branches>> ]_vars

\* a never-moved branch with a free neighbour has been through its iteration
BranchOffPreconditionWitness ==
    /\ pc = "branching" /\ i > 1
    /\ Len(branch_list[i - 1].own_fields) = 1
    /\ get_free_fields(branch_list[i - 1].pos, cells, cell_count_x, cell_count_y) # <<>>

-----------------------------------------------------------------------------
(* C8: in the deterministic scenario the single branch moves East three    *)
(* times to (3,0), then South down column x=3, goes on until all 16 cells  *)
(* are occupied, and stops only then.                                      *)
IsPrefix(s, t) == Len(s) <= Len(t) /\ s = SubSeq(t, 1, Len(s))

\* s and t agree on the positions both have
Agree(s, t) == \A k \in 1..Min(Len(s), Len(t)) : s[k] = t[k]

EastThenDownColumn ==
    << Pos(0, 0), Pos(1, 0), Pos(2, 0), Pos(3, 0), Pos(3, 1), Pos(3, 2), Pos(3, 3) >>

ColumnWalk ==
    LET bs == branch_list \o all_branches
    IN  \A k \in 1..Len(bs) :
           /\ Agree(bs[k].own_fields, EastThenDownColumn)
           /\ bs[k].state = "Stopped" => Occupied(cells) = 1..16

(* C8 as amended: the branch moves East three times to (3,0), one step     *)
(* South to (3,1), then West along row 1, and so on row by row in a        *)
(* serpentine, because West precedes South in the enumeration order; it    *)
(* never backtracks, occupies all 16 cells and stops only then.            *)
ScenarioPath ==
    << Pos(0, 0), Pos(1, 0), Pos(2, 0), Pos(3, 0),
       Pos(3, 1), Pos(2, 1), Pos(1, 1), Pos(0, 1),
       Pos(0, 2), Pos(1, 2), Pos(2, 2), Pos(3, 2),
       Pos(3, 3), Pos(2, 3), Pos(1, 3), Pos(0, 3) >>

DeterministicWalk ==
    LET bs == branch_list \o all_branches
    IN  /\ Len(bs) <= 1
        /\ GrowthPhase => Len(bs) = 1
        /\ \A k \in 1..Len(bs) :
              /\ IsPrefix(bs[k].own_fields, ScenarioPath)
              /\ bs[k].pos = bs[k].own_fields[Len(bs[k].own_fields)]
              /\ bs[k].mode = "City"
              /\ pc # "commit" =>
                    Occupied(cells) = {to_idx(bs[k].own_fields[j], cell_count_x) + 1 :
                                          j \in 1..Len(bs[k].own_fields)}
              /\ bs[k].state = "Stopped" =>
                    /\ bs[k].own_fields = ScenarioPath
                    /\ Occupied(cells) = 1..16

\* the branch has stopped with the whole grid occupied
DeterministicWalkWitness ==
    /\ reverse_running /\ Len(all_branches) = 1
    /\ all_branches[1].state = "Stopped"
    /\ Len(all_branches[1].own_fields) = 16
    /\ Occupied(cells) = 1..16

-----------------------------------------------------------------------------
(* C9: in the branching pass the threshold used for a branch is            *)
(* base_chance(mode) * (1 + falloff) / (falloff + n) with n the number of  *)
(* active branches at the start of the pass, unchanged by children spawned *)
(* in the pass, and the value does not increase with n.                    *)
BaseChance(b) ==
    IF b.mode = "City" THEN cfg.p.prop_branch_off ELSE cfg.p.prop_branch_off_land

PopulationScaledBranching ==
    pc = "branching" =>
       /\ branch_count = Len(branch_list)
       /\ i > 1 =>
            LET n == Len(branch_list)
                f == cfg.p.branch_fall_off
                base == BaseChance(branch_list[i - 1])
                next == scaled_branch_off(base, f, n + 1)
            IN  /\ scaled.den > 0
                /\ scaled.num * (f + n) = base * (1 + f) * scaled.den
                /\ next.den > 0
                /\ next.num * scaled.den <= scaled.num * next.den

\* both branches of a pass over two branches spawned a child
PopulationScaledBranchingWitness ==
    pc = "branching" /\ i = 3 /\ Len(branch_list) = 2 /\ Len(new_branches) = 2

-----------------------------------------------------------------------------
(* C10: on_resize is a hard reset: afterwards the grid has the new         *)
(* dimensions, only the new seed cells are occupied, nothing is stored,    *)
(* neither reverse mode nor fade-out is on and the active list holds only  *)
(* fresh seed branches.                                                    *)
ResizeHardReset ==
    [][ ResizeStep =>
          /\ cell_count_x' = RoundHalf(call'.width, cfg.initial_size)
          /\ cell_count_y' = RoundHalf(call'.height, cfg.initial_size)
          /\ Len(cells') = cell_count_x' * cell_count_y'
          /\ Occupied(cells') = {to_idx(branch_list'[j].pos, cell_count_x') + 1 :
                                    j \in 1..Len(branch_list')}
          /\ \A j \in 1..Len(branch_list') : IsFresh(branch_list'[j], cfg.life_time)
          /\ all_branches' = <<>>
          /\ ~reverse_running' /\ ~fading_out' ]_vars

\* a fresh scene whose last frame submitted an erase batch: the resize came
\* in the middle of the reverse phase
ResizeHardResetWitness ==
    /\ call.name = "on_resize" /\ ~panicked
    /\ \E k \in 1..Len(submitted) : submitted[k].kind = "erase"
    /\ branch_list # <<>>
    /\ \A j \in 1..Len(branch_list) : IsFresh(branch_list[j], cfg.life_time)
    /\ all_branches = <<>> /\ ~reverse_running

-----------------------------------------------------------------------------
(* C11: in the reverse phase no operation of a main branch (a seed or a    *)
(* promoted child) leaves its history in a reverse step that starts and    *)
(* ends with a non-main branch still holding history.                      *)
IsMain(b) == b.lightness = "default"

HoldsNonMainHistory(branches) ==
    \E k \in 1..Len(branches) : ~IsMain(branches[k]) /\ HasHistory(branches[k])

\* number of operations in the histories of the main branches
MainOps(branches) ==
    SumLens([k \in 1..Len(branches) |->
                IF IsMain(branches[k]) THEN branches[k].history ELSE <<>>])

NonMainErasedFirst ==
    [][ /\ ReverseUpdateStep
        /\ HoldsNonMainHistory(all_branches)
        /\ HoldsNonMainHistory(all_branches')
        => MainOps(all_branches') = MainOps(all_branches) ]_vars

-----------------------------------------------------------------------------
(* C12: get_free_fields(p) is exactly the list of the four axis-aligned    *)
(* neighbours of p, in the order East, West, South, North, restricted to   *)
(* those inside the grid and unoccupied: never p, a diagonal cell, a cell  *)
(* outside the grid or a cell of the neighbouring row reached by index     *)
(* wrap-around.                                                            *)
AxisNeighbours(p) ==
    <<Pos(p.x + 1, p.y), Pos(p.x - 1, p.y), Pos(p.x, p.y + 1), Pos(p.x, p.y - 1)>>

InGrid(q) == q.x \in 0..(cell_count_x - 1) /\ q.y \in 0..(cell_count_y - 1)

IsFreeCell(q) == InGrid(q) /\ cells[q.y * cell_count_x + q.x + 1] = 0

FreeNeighbourEnumeration ==
    call.name = "get_free_fields" =>
        call.result = SelectSeq(AxisNeighbours(call.pos), IsFreeCell)

\* a probe on the left edge below the first row whose index predecessor (the
\* last cell of the row above) is free, with two free neighbours found
FreeNeighbourEnumerationWitness ==
    /\ call.name = "get_free_fields"
    /\ call.pos.x = 0 /\ call.pos.y > 0 /\ cell_count_x > 1
    /\ cells[to_idx(call.pos, cell_count_x)] = 0
    /\ Len(call.result) = 2

-----------------------------------------------------------------------------
(* C13: no sequence of construction, update ticks and resize events brings *)
(* the scene to a panic, whatever the window size and the configuration.   *)
NoFatalError == ~panicked

-----------------------------------------------------------------------------
(* C14: reverse mode is entered exactly by the step that ends a growth     *)
(* tick with an empty active list; while reverse_running holds no Running  *)
(* branch remains and no growth tick is in progress; a growth phase at     *)
(* rest always has an active branch, so the tick that empties the list is  *)
(* the first one after which it is empty.                                  *)
GrowthTickEnd == pc = "stepping" /\ pc' = "idle"

NoRunningBranch ==
    /\ branch_list = <<>>
    /\ \A k \in 1..Len(all_branches) : all_branches[k].state # "Running"

ReverseEntry ==
    /\ [](reverse_running => NoRunningBranch /\ pc = "idle")
    /\ [](pc = "idle" /\ GrowthPhase /\ ~panicked => branch_list # <<>>)
    /\ [][ /\ GrowthTickEnd => (reverse_running' <=> branch_list' = <<>>)
           /\ ~reverse_running /\ reverse_running' => GrowthTickEnd ]_vars

\* reverse mode has just been entered by a tick that was not the first of
\* its cycle
ReverseEntryWitness ==
    /\ reverse_running /\ turn = "render" /\ call.name = "update"
    /\ reverse_time_accumulator = 0
    /\ \E k \in 1..Len(all_branches) :
          all_branches[k].age >= 2 /\ all_branches[k].pending_erasures = <<>>

-----------------------------------------------------------------------------
(* C15: a Running branch whose position has no free neighbour jumps to the *)
(* most recent of its last min(max_steps_back, len(own_fields)) own_fields *)
(* entries that has a free neighbour and moves from there; if the window   *)
(* has no such entry it becomes Stopped in that tick with no move, leaving *)
(* the grid, own_fields, age and history unchanged.  Entries older than    *)
(* the window are never used.                                              *)

\* the step of branch i in the stepping pass, past the death check, from a
\* position without a free neighbour
StuckStep ==
    /\ pc = "stepping" /\ i <= Len(branch_list)
    /\ branch_list[i].age < branch_list[i].life_time
    /\ get_free_fields(branch_list[i].pos, cells, cell_count_x, cell_count_y) = <<>>

\* indices of the own_fields entries inside the search window
BacktrackWindow(b) ==
    LET n == Len(b.own_fields)
    IN  (n - Min(cfg.max_steps_back, n) + 1)..n

HasFreeNeighbour(pos) ==
    get_free_fields(pos, cells, cell_count_x, cell_count_y) # <<>>

WindowHits(b) == {k \in BacktrackWindow(b) : HasFreeNeighbour(b.own_fields[k])}

\* the step jumps to the most recent hit and selects a move from there
JumpsToLatestHit(b, b2) ==
    /\ \E k \in WindowHits(b) :
          /\ \A g \in WindowHits(b) : g <= k
          /\ b2.pos = b.own_fields[k]
    /\ b2.state = "Running"
    /\ b2.own_fields = b.own_fields
    /\ pc' = "commit" /\ i' = i
    /\ new_pos' # <<>>
    /\ new_pos'[1] \in Range(get_free_fields(b2.pos, cells, cell_count_x, cell_count_y))

\* the step stops the branch without a move
StopsWithoutMove(b, b2) ==
    /\ b2.state = "Stopped"
    /\ pc' = "stepping" /\ i' = i + 1 /\ new_pos' = <<>>
    /\ cells' = cells
    /\ b2.pos = b.pos
    /\ b2.own_fields = b.own_fields
    /\ b2.history = b.history

\* as stated: the age is untouched in the tick in which the branch stops
BoundedBacktrackingAgeKept ==
    [][ StuckStep =>
          LET b == branch_list[i]
              b2 == branch_list'[i]
          IN  IF WindowHits(b) = {}
              THEN StopsWithoutMove(b, b2) /\ b2.age = b.age
              ELSE JumpsToLatestHit(b, b2) ]_vars

\* amended: the failed search leaves the age alone, but the Land-to-City
\* mode transition that precedes it in the same tick may have re-rolled it
BoundedBacktracking ==
    [][ StuckStep =>
          LET b == branch_list[i]
              b2 == branch_list'[i]
          IN  IF WindowHits(b) = {}
              THEN /\ StopsWithoutMove(b, b2)
                   /\ \/ b2.age = b.age
                      \/ b.mode = "Land" /\ b2.mode = "City" /\ b2.age < b.age
              ELSE JumpsToLatestHit(b, b2) ]_vars

\* a branch has jumped back to an earlier own_fields entry and selected a
\* move from there
BoundedBacktrackingWitness ==
    /\ pc = "commit"
    /\ branch_list[i].pos # branch_list[i].own_fields[Len(branch_list[i].own_fields)]
    /\ branch_list[i].pos \in Range(branch_list[i].own_fields)

\* a branch has stopped although an entry older than the window has a free
\* neighbour
StoppedDespiteOlderEntry ==
    /\ pc = "stepping" /\ i > 1
    /\ branch_list[i - 1].state = "Stopped"
    /\ branch_list[i - 1].age < branch_list[i - 1].life_time
    /\ \E k \in 1..Len(branch_list[i - 1].own_fields) :
          /\ k \notin BacktrackWindow(branch_list[i - 1])
          /\ HasFreeNeighbour(branch_list[i - 1].own_fields[k])

-----------------------------------------------------------------------------
(* C16: a branch with age >= life_time at the start of its step becomes    *)
(* Stopped in that tick with no mode transition and no move; the end of    *)
(* the tick moves it from the active list to the stored list; a stored     *)
(* branch is Stopped for good: no growth tick steps it or lets it branch   *)
(* off again.                                                              *)

\* the step of branch i in the stepping pass finds it past its life time
DeathStep ==
    /\ pc = "stepping" /\ i <= Len(branch_list)
    /\ branch_list[i].age >= branch_list[i].life_time

\* the fields a growth tick works on
GrowthFields(b) == <<b.pos, b.state, b.mode, b.expand_direction, b.own_fields, b.age,
                     b.life_time, b.history>>

DeathByAge ==
    /\ [][ DeathStep =>
             /\ branch_list' = [branch_list EXCEPT ![i].state = "Stopped"]
             /\ cells' = cells
             /\ pc' = "stepping" /\ i' = i + 1 /\ new_pos' = <<>> ]_vars
    /\ [][ GrowthTickEnd =>
             /\ \A j \in 1..Len(branch_list') : branch_list'[j].state = "Running"
             /\ all_branches' = all_branches
                                 \o SelectSeq(branch_list, LAMBDA b : b.state = "Stopped") ]_vars
    /\ [](pc = "idle" => \A j \in 1..Len(branch_list) : branch_list[j].state = "Running")
    /\ [](\A k \in 1..Len(all_branches) : all_branches[k].state = "Stopped")
    /\ [][ pc # "idle" =>
             /\ Len(all_branches') >= Len(all_branches)
             /\ \A k \in 1..Len(all_branches) :
                   GrowthFields(all_branches'[k]) = GrowthFields(all_branches[k]) ]_vars
    /\ [][ pc # "idle" /\ ~GrowthTickEnd =>
             \A j \in 1..Len(branch_list) :
                branch_list[j].state = "Stopped" => branch_list'[j] = branch_list[j] ]_vars

\* a branch has just died of age on a cell that still has a free neighbour
DeathByAgeWitness ==
    /\ pc = "stepping" /\ i > 1
    /\ branch_list[i - 1].state = "Stopped"
    /\ branch_list[i - 1].age >= branch_list[i - 1].life_time
    /\ HasFreeNeighbour(branch_list[i - 1].pos)

-----------------------------------------------------------------------------
(* C17: every move committed by a branch with life_time - age below        *)
(* life_time_branch is committed in City mode, and a non-promoted child    *)
(* (life_time = life_time_branch) commits every move, its first one at age *)
(* 0 included, in City mode.                                               *)
LateLife(b) == b.life_time - b.age < cfg.life_time_branch

IsSecondary(b) == ~IsMain(b) /\ b.life_time = cfg.life_time_branch

\* the first half alone: the late-life override
LateLifeMovesInCity ==
    pc = "commit" /\ LateLife(branch_list[i]) => branch_list[i].mode = "City"

CityOnlyInfill ==
    pc = "commit" /\ (LateLife(branch_list[i]) \/ IsSecondary(branch_list[i]))
        => branch_list[i].mode = "City"

-----------------------------------------------------------------------------
(* C18: a Land-mode branch outside the late-life override that has a free  *)
(* neighbour but whose cell pos + expand_direction is not free moves to    *)
(* one of the free neighbours, stays in Land mode, and its                 *)
(* expand_direction becomes the offset of the move taken.                  *)
ExpandField(b) == Pos(b.pos.x + b.expand_direction.x, b.pos.y + b.expand_direction.y)

\* the step of branch i in the stepping pass: a Land branch, past the death
\* check and outside the override, with free neighbours but a blocked direction
BlockedDirectionStep ==
    /\ pc = "stepping" /\ i <= Len(branch_list)
    /\ branch_list[i].age < branch_list[i].life_time
    /\ ~LateLife(branch_list[i])
    /\ branch_list[i].mode = "Land"
    /\ HasFreeNeighbour(branch_list[i].pos)
    /\ ExpandField(branch_list[i]) \notin
          Range(get_free_fields(branch_list[i].pos, cells, cell_count_x, cell_count_y))

BlockedDirectionKeepsLand ==
    [][ BlockedDirectionStep =>
          LET b == branch_list[i]
              b2 == branch_list'[i]
          IN  /\ pc' = "commit"
              /\ new_pos' # <<>>
              /\ new_pos'[1] \in Range(get_free_fields(b.pos, cells, cell_count_x,
                                                       cell_count_y))
              /\ b2.mode = "Land"
              /\ b2.expand_direction = Pos(new_pos'[1].x - b.pos.x,
                                           new_pos'[1].y - b.pos.y) ]_vars

\* what the step does instead, whatever the rolls: the branch moves to a
\* free neighbour in City mode with its expand_direction left as it was
BlockedDirectionSwitchesToCity ==
    [][ BlockedDirectionStep =>
          LET b == branch_list[i]
              b2 == branch_list'[i]
          IN  /\ pc' = "commit"
              /\ new_pos'[1] \in Range(get_free_fields(b.pos, cells, cell_count_x,
                                                       cell_count_y))
              /\ b2.mode = "City"
              /\ b2.age <= b.age
              /\ b2.expand_direction = b.expand_direction ]_vars

-----------------------------------------------------------------------------
(* C19: in a tick in which the late-life override applies to a branch      *)
(* (life_time - age < life_time_branch at the start of its step) no mode   *)
(* transition is made for it: its expand_direction is not recomputed and   *)
(* its age is not re-rolled in that step.                                  *)

\* the step of branch i in the stepping pass, past the death check, with the
\* override applying at its start
OverrideStep ==
    /\ pc = "stepping" /\ i <= Len(branch_list)
    /\ branch_list[i].age < branch_list[i].life_time
    /\ LateLife(branch_list[i])

OverrideSkipsTransition ==
    [][ OverrideStep =>
          /\ branch_list'[i].expand_direction = branch_list[i].expand_direction
          /\ branch_list'[i].age = branch_list[i].age ]_vars

-----------------------------------------------------------------------------
(* C20: when the last entry of the parent's own_fields has no free         *)
(* neighbour, branch_off returns no child and changes nothing: the parent  *)
(* (position, own_fields, age, mode, history), the grid and the active     *)
(* list with the children collected so far stay as they are.               *)

\* the iteration of branch i in the branching pass: the branch has moved
\* before and its last cell has no free neighbour
FailedBranchOffStep ==
    /\ pc = "branching" /\ i <= Len(branch_list)
    /\ Len(branch_list[i].own_fields) > 1
    /\ ~HasFreeNeighbour(branch_list[i].own_fields[Len(branch_list[i].own_fields)])

FailedBranchOffNoEffect ==
    [][ FailedBranchOffStep =>
          UNCHANGED <<branch_list, new_branches, cells, all_branches>> ]_vars

\* a live branch that has moved, boxed in on its last cell, has been through
\* its iteration of the branching pass
FailedBranchOffNoEffectWitness ==
    /\ pc = "branching" /\ i > 1
    /\ Len(branch_list[i - 1].own_fields) > 1
    /\ ~HasFreeNeighbour(branch_list[i - 1].own_fields[Len(branch_list[i - 1].own_fields)])
    /\ branch_list[i - 1].age < branch_list[i - 1].life_time

-----------------------------------------------------------------------------
(* C21: a successful branch-off spawns on a free 4-neighbour of the last   *)
(* entry of the parent's own_fields; the child is created on that cell,    *)
(* Running, in City mode, with age 0, own_fields = [spawn cell], an empty  *)
(* history and life_time = life_time_branch, or config.life_time when it   *)
(* is promoted; the connecting line is appended to the parent's history;   *)
(* parent and child are both in the active list for the stepping pass of   *)
(* the same tick.                                                          *)
Last(s) == s[Len(s)]

\* the line from cell p to cell q in pixel coordinates
LineBetween(p, q) ==
    Line(2 * cfg.initial_size * p.x + LineWidth \div 2,
         2 * cfg.initial_size * p.y + LineWidth \div 2,
         2 * cfg.initial_size * q.x + LineWidth \div 2,
         2 * cfg.initial_size * q.y + LineWidth \div 2)

\* the iteration of branch i in the branching pass spawns a child
SpawnStep ==
    /\ pc = "branching" /\ i <= Len(branch_list)
    /\ Len(new_branches') > Len(new_branches)

SuccessfulBranchOff ==
    /\ [][ SpawnStep =>
             LET b == branch_list[i]
                 b2 == branch_list'[i]
                 tip == Last(b.own_fields)
                 child == Last(new_branches')
                 spawn == child.pos
             IN  /\ new_branches' = Append(new_branches, child)
                 /\ spawn \in Range(SelectSeq(AxisNeighbours(tip), IsFreeCell))
                 /\ child.state = "Running" /\ child.mode = "City" /\ child.age = 0
                 /\ child.own_fields = <<spawn>>
                 /\ child.history = <<>>
                 /\ child.life_time = IF IsMain(child) THEN cfg.life_time
                                      ELSE cfg.life_time_branch
                 /\ IsPrefix(b.history, b2.history)
                 /\ Len(b2.history) > Len(b.history)
                 /\ Last(b2.history) = LineBetween(tip, spawn) ]_vars
    /\ [][ pc = "branching" /\ pc' = "stepping" =>
             /\ branch_list' = branch_list \o new_branches
             /\ i' = 1 ]_vars

\* the stepping pass starts with a parent and its promoted child, spawned
\* in this tick, both in the active list
SuccessfulBranchOffWitness ==
    /\ pc = "stepping" /\ i = 1 /\ Len(branch_list) = 2
    /\ branch_list[2].age = 0 /\ branch_list[2].history = <<>>
    /\ branch_list[2].life_time = cfg.life_time
    /\ branch_list[2].pos = branch_list[1].pos
    /\ Len(branch_list[1].own_fields) = 3
    /\ cells[to_idx(branch_list[2].pos, cell_count_x) + 1] = 0

-----------------------------------------------------------------------------
(* C22: an age re-roll (Land to City, in the mode transition or inside the *)
(* move selection) gives an age between 0 and the previous age; the age    *)
(* only ever goes up by exactly 1, on a committed move; life_time is not   *)
(* changed by the re-roll.                                                 *)
AgeRerollBounded ==
    /\ [](\A j \in 1..Len(branch_list) : branch_list[j].age >= 0)
    /\ [][ pc # "idle" /\ ~GrowthTickEnd =>
             \A j \in 1..Len(branch_list) :
                LET b == branch_list[j]
                    b2 == branch_list'[j]
                IN  /\ b2.life_time = b.life_time
                    /\ IF pc = "commit" /\ j = i
                       THEN b2.age = b.age + 1
                       ELSE b2.age <= b.age
                    /\ b2.age < b.age =>
                          /\ pc = "stepping" /\ j = i
                          /\ b2.mode = "City" ]_vars

\* on a 2x1 grid (no branch-off possible) a branch that has moved once is
\* back at age 0 in City mode with a direction left from its Land phase
AgeRerollBoundedWitness ==
    /\ cell_count_x = 2 /\ cell_count_y = 1
    /\ \E j \in 1..Len(branch_list) :
          /\ Len(branch_list[j].own_fields) = 2
          /\ branch_list[j].age = 0
          /\ branch_list[j].mode = "City"
          /\ branch_list[j].expand_direction # Pos(0, 0)

-----------------------------------------------------------------------------
(* C23: own_fields is append-only: over every step of a growth tick (move, *)
(* branch-off, backtrack, mode transition, stop) the own_fields of every   *)
(* branch before the step is a prefix of its own_fields after the step;    *)
(* backtracking changes the current position only; the end of the tick     *)
(* hands every branch over to the active or the stored list with its       *)
(* own_fields as they were.                                                *)
OwnFieldsOf(branches) == [k \in 1..Len(branches) |-> branches[k].own_fields]

\* the step of branch i in the stepping pass jumps back to an earlier entry
BacktrackJump ==
    /\ StuckStep
    /\ branch_list'[i].pos # branch_list[i].pos

OwnFieldsAppendOnly ==
    /\ [][ pc # "idle" /\ ~GrowthTickEnd =>
             /\ Len(branch_list') >= Len(branch_list)
             /\ \A j \in 1..Len(branch_list) :
                   IsPrefix(branch_list[j].own_fields, branch_list'[j].own_fields)
             /\ OwnFieldsOf(all_branches') = OwnFieldsOf(all_branches) ]_vars
    /\ [][ StuckStep => branch_list'[i].own_fields = branch_list[i].own_fields ]_vars
    /\ [][ BacktrackJump => branch_list'[i].pos \in Range(branch_list[i].own_fields) ]_vars
    /\ [][ GrowthTickEnd =>
             /\ OwnFieldsOf(branch_list') = OwnFieldsOf(SelectSeq(branch_list, IsRunning))
             /\ OwnFieldsOf(all_branches') =
                   OwnFieldsOf(all_branches \o SelectSeq(branch_list, IsStopped)) ]_vars
    /\ [][ call'.name = "render" =>
             /\ OwnFieldsOf(branch_list') = OwnFieldsOf(branch_list)
             /\ OwnFieldsOf(all_branches') = OwnFieldsOf(all_branches) ]_vars

\* a branch has committed a move from a position it had jumped back to: the
\* new entry follows the old ones although it is no neighbour of the last one
OwnFieldsAppendOnlyWitness ==
    /\ pc = "stepping" /\ i > 1
    /\ LET f == branch_list[i - 1].own_fields
       IN  /\ Len(f) >= 3
           /\ branch_list[i - 1].pos = f[Len(f)]
           /\ f[Len(f)] \notin Range(AxisNeighbours(f[Len(f) - 1]))

-----------------------------------------------------------------------------
(* C24: each committed move and each successful branch-off appends to the  *)
(* acting branch's history one line, as the last appended operation,       *)
(* preceded by exactly two fill rectangles when the branch is in City mode *)
(* and fill_city is on, and by nothing otherwise; during growth a history  *)
(* is only extended at its tail, and no other step of a tick appends       *)
(* anything.                                                               *)
HistoriesOf(branches) == [k \in 1..Len(branches) |-> branches[k].history]

\* what history h2 holds after history h
Appended(h, h2) == SubSeq(h2, Len(h) + 1, Len(h2))

\* the operations of one drawing step of branch b from cell p to cell q
IsDrawingStep(ops, b, p, q) ==
    /\ ops # <<>>
    /\ Last(ops) = LineBetween(p, q)
    /\ IF cfg.fill_city /\ b.mode = "City"
       THEN /\ Len(ops) = 3
            /\ ops[1].kind = "Rect" /\ ops[2].kind = "Rect"
       ELSE Len(ops) = 1

HistoryGrowth ==
    /\ [][ pc # "idle" /\ ~GrowthTickEnd =>
             /\ HistoriesOf(all_branches') = HistoriesOf(all_branches)
             /\ \A j \in 1..Len(branch_list) :
                   LET b == branch_list[j]
                       b2 == branch_list'[j]
                   IN  /\ IsPrefix(b.history, b2.history)
                       /\ IF pc = "commit" /\ j = i
                          THEN IsDrawingStep(Appended(b.history, b2.history), b,
                                             b.pos, new_pos[1])
                          ELSE IF SpawnStep /\ j = i
                          THEN IsDrawingStep(Appended(b.history, b2.history), b,
                                             Last(b.own_fields), Last(new_branches').pos)
                          ELSE b2.history = b.history ]_vars
    /\ [][ GrowthTickEnd =>
             /\ HistoriesOf(branch_list') = HistoriesOf(SelectSeq(branch_list, IsRunning))
             /\ HistoriesOf(all_branches') =
                   HistoriesOf(all_branches \o SelectSeq(branch_list, IsStopped)) ]_vars
    /\ [][ call'.name = "render" =>
             /\ HistoriesOf(branch_list') = HistoriesOf(branch_list)
             /\ HistoriesOf(all_branches') = HistoriesOf(all_branches) ]_vars

\* with fill_city on, a branch has drawn a City move (two rectangles and a
\* line) and then a Land move (a line alone)
HistoryGrowthWitness ==
    /\ cfg.fill_city
    /\ pc = "stepping" /\ i > 1
    /\ LET h == branch_list[i - 1].history
       IN  /\ Len(h) = 4
           /\ h[1].kind = "Rect" /\ h[2].kind = "Rect"
           /\ h[3].kind = "Line" /\ h[4].kind = "Line"
           /\ branch_list[i - 1].mode = "Land"

-----------------------------------------------------------------------------
(* C25: in one reverse removal step with N stored branches at its start,   *)
(* every branch loses min(len(history), ceil(reverse_actions_per_frame /   *)
(* N)) operations, all from the tail of its history: what is left is the   *)
(* unchanged prefix, and no branch loses more than the quota.              *)
ReverseQuota == CeilDiv(cfg.reverse_actions_per_frame, Max(Len(all_branches), 1))

LosesWithinQuota(b) == Min(Len(b.history), ReverseQuota)

\* the branches that still hold operations after losing their share
Survivors == SelectSeq(all_branches, LAMBDA b : Len(b.history) > LosesWithinQuota(b))

TailRemoval ==
    /\ Len(all_branches') = Len(Survivors)
    /\ \A k \in 1..Len(Survivors) :
          LET b == Survivors[k]
              b2 == all_branches'[k]
              left == Len(b.history) - LosesWithinQuota(b)
          IN  /\ b2.history = SubSeq(b.history, 1, left)
              /\ Len(b.history) - Len(b2.history) <= ReverseQuota
              /\ Appended(b.pending_erasures, b2.pending_erasures) =
                    SubSeq(b.history, left + 1, Len(b.history))

\* a reverse update with a full interval already accumulated removes whatever
\* the frame time is
RemovalDue ==
    /\ ReverseUpdateStep /\ cfg.show_reverse
    /\ reverse_time_accumulator >= REVERSE_UPDATE_INTERVAL

ReverseStepSize ==
    /\ [][ RemovalDue => TailRemoval ]_vars
    /\ [][ ReverseUpdateStep => all_branches' = all_branches \/ TailRemoval ]_vars

\* two stored branches and one action per frame: each branch has just lost
\* ceil(1 / 2) = 1 operation and keeps the rest
ReverseStepSizeWitness ==
    /\ reverse_running /\ turn = "render" /\ call.name = "update"
    /\ cfg.reverse_actions_per_frame = 1
    /\ Len(all_branches) >= 2
    /\ \A k \in 1..Len(all_branches) :
          /\ Len(all_branches[k].pending_erasures) = 1
          /\ all_branches[k].history # <<>>

-----------------------------------------------------------------------------
(* C26: after every reverse removal step no branch with an empty history   *)
(* is left in all_branches; a branch leaves the stored set in the removal  *)
(* step that finds its history empty after the drain, and never while      *)
(* operations are left in its history.                                     *)

\* a reverse update() that removes something
RemovalStep == ReverseUpdateStep /\ all_branches' # all_branches

NoEmptyStored(branches) == \A k \in 1..Len(branches) : branches[k].history # <<>>

\* the stored branches the step drops
Dropped == SelectSeq(all_branches, LAMBDA b : Len(b.history) <= ReverseQuota)

\* as stated: every branch that is dropped had operations at the start of
\* the step, so the step that drops it is the one that empties it
DroppedWhenEmptied ==
    [][ RemovalStep =>
          /\ NoEmptyStored(all_branches')
          /\ Len(all_branches') = Len(all_branches) - Len(Dropped)
          /\ NoEmptyStored(Dropped) ]_vars

\* amended: the dropped branches are those whose history is empty after the
\* drain, whether the step emptied it or it never held an operation
EmptyHistoriesDropped ==
    /\ [][ RemovalStep =>
             /\ NoEmptyStored(all_branches')
             /\ Len(all_branches') = Len(all_branches) - Len(Dropped)
             /\ HistoriesOf(all_branches') =
                   [k \in 1..Len(Survivors) |->
                       SubSeq(Survivors[k].history, 1,
                              Len(Survivors[k].history) - ReverseQuota)] ]_vars
    /\ [][ RemovalDue => NoEmptyStored(all_branches') ]_vars
    /\ [][ Len(all_branches') < Len(all_branches) => RemovalStep \/ ResizeStep ]_vars

\* two actions per frame and a share of one: two branches were stored when
\* the step began, one has been dropped and the other keeps operations
EmptyHistoriesDroppedWitness ==
    /\ reverse_running /\ turn = "render" /\ call.name = "update"
    /\ cfg.reverse_actions_per_frame = 2
    /\ Len(all_branches) = 1
    /\ Len(all_branches[1].pending_erasures) = 1
    /\ all_branches[1].history # <<>>

-----------------------------------------------------------------------------
(* C27: apart from resize, the grid is reset and new seeds are created     *)
(* only in a state where all_branches is empty and no active branch        *)
(* exists; the scene never passes from reverse mode back to growth while   *)
(* an operation remains in a history.                                      *)
NothingLeft == all_branches = <<>> /\ branch_list = <<>>

\* the step clears an occupied cell or changes the size of the grid
GridReset ==
    \/ Len(cells') # Len(cells)
    \/ \E k \in 1..Len(cells) : cells[k] = 1 /\ cells'[k] = 0

\* the step puts branches into the active list outside a growth tick
Seeding ==
    /\ pc = "idle" /\ pc' = "idle"
    /\ OwnFieldsOf(branch_list') # OwnFieldsOf(branch_list)

ReinitAfterFullUndo ==
    /\ [][ GridReset \/ Seeding => ResizeStep \/ (FadeReinitStep /\ NothingLeft) ]_vars
    /\ [][ FadeReinitStep => NothingLeft /\ branch_list' # <<>> ]_vars
    /\ [](reverse_running => branch_list = <<>>)
    /\ [](fading_out => NothingLeft)
    /\ [][ reverse_running /\ ~reverse_running' /\ ~ResizeStep =>
             fading_out' /\ all_branches' = <<>> ]_vars
    /\ [][ ~GrowthPhase /\ GrowthPhase' =>
             /\ all_branches' = <<>>
             /\ \A j \in 1..Len(branch_list') : branch_list'[j].history = <<>>
             /\ ResizeStep \/ (fading_out /\ NothingLeft) ]_vars

\* the update() that ends the fade-out has reset a 2x2 grid: only the cells
\* of the two new seeds are occupied
ReinitAfterFullUndoWitness ==
    /\ call.name = "update" /\ turn = "render" /\ GrowthPhase
    /\ Len(cells) = 4 /\ Len(branch_list) = 2
    /\ branch_list[1].pos # branch_list[2].pos
    /\ \A j \in 1..2 : IsFresh(branch_list[j], cfg.life_time)
    /\ Occupied(cells) = {to_idx(branch_list[j].pos, cell_count_x) + 1 : j \in 1..2}

-----------------------------------------------------------------------------
(* C28: within one growth tick the branching pass goes over all active     *)
(* branches in list order and is complete before any branch takes its      *)
(* step; the children it spawned are appended after the existing branches  *)
(* and take their first step in the stepping pass of the same tick; the    *)
(* stopped branches are moved to the stored set only after the whole       *)
(* stepping pass.                                                          *)
InSteppingPass == pc \in {"stepping", "commit"}

\* what a step of the stepping pass may change of a branch
StepFields(b) == <<b.state, b.mode, b.age, b.expand_direction>>

\* every branch but the one at index i is left as it is
OnlyActs ==
    /\ Len(branch_list') = Len(branch_list)
    /\ \A j \in 1..Len(branch_list) : j # i => branch_list'[j] = branch_list[j]

TickOrdering ==
    /\ [][ pc = "idle" /\ pc' # "idle" =>
             pc' = "branching" /\ i' = 1 /\ new_branches' = <<>>
             /\ branch_list' = branch_list ]_vars
    /\ [][ pc = "branching" =>
             /\ cells' = cells
             /\ \A j \in 1..Len(branch_list) :
                   StepFields(branch_list'[j]) = StepFields(branch_list[j])
             /\ IF i <= Len(branch_list)
                THEN pc' = "branching" /\ i' = i + 1 /\ OnlyActs
                ELSE /\ pc' = "stepping" /\ i' = 1
                     /\ branch_list' = branch_list \o new_branches ]_vars
    /\ [][ InSteppingPass /\ ~GrowthTickEnd =>
             /\ i <= Len(branch_list)
             /\ OnlyActs
             /\ new_branches' = <<>>
             /\ InSteppingPass'
             /\ i' = IF pc = "stepping" /\ pc' = "commit" THEN i ELSE i + 1 ]_vars
    /\ [][ GrowthTickEnd => i > Len(branch_list) ]_vars
    /\ [][ pc # "idle" /\ ~GrowthTickEnd => all_branches' = all_branches ]_vars
    /\ [][ GrowthTickEnd =>
             all_branches' = all_branches \o SelectSeq(branch_list, IsStopped) ]_vars

\* a child that comes after its parent in the list has taken its first step
\* while the line that connects the parent to its spawn cell is still
\* unrendered: spawn and first step belong to the same tick
TickOrderingWitness ==
    /\ pc = "stepping"
    /\ \E p \in 1..Len(branch_list), c \in 1..Len(branch_list) :
          /\ p < c /\ c < i
          /\ branch_list[c].age = 1
          /\ Len(branch_list[c].own_fields) = 2
          /\ Len(branch_list[c].history) = 1
          /\ \E m \in 2..Len(branch_list[p].own_fields) :
                /\ branch_list[p].own_fields[m] = branch_list[c].own_fields[1]
                /\ branch_list[p].history[m - 1] =
                      LineBetween(branch_list[p].own_fields[m - 1],
                                  branch_list[c].own_fields[1])
                /\ branch_list[p].rendered_count < m - 1

-----------------------------------------------------------------------------
(* C29: merging lines into polylines preserves the geometry: the segments  *)
(* of the emitted lines and polylines, taken in order, are exactly the     *)
(* input Line actions, every input Rect gives one filled rectangle at its  *)
(* place in the order, a pending polyline is flushed before every          *)
(* rectangle and before every line that does not start where the previous  *)
(* line ended, and no segment is dropped, duplicated or invented.          *)
SegmentAction(p, q) == Line(p.X, p.Y, q.X, q.Y)

\* the draw actions one operation stands for
ActionsOf(op) ==
    IF op.kind = "Line" THEN <<SegmentAction(op.start, op.end)>>
    ELSE IF op.kind = "Polyline"
    THEN [k \in 1..(Len(op.points) - 1) |-> SegmentAction(op.points[k], op.points[k + 1])]
    ELSE <<Rect(op.left, op.top, op.right - op.left, op.bottom - op.top)>>

Expanded(operations) == Concat([k \in 1..Len(operations) |-> ActionsOf(operations[k])])

\* the input actions that went into operation k
InputOf(k) ==
    LET before == Len(Expanded(SubSeq(call.operations, 1, k - 1)))
    IN  SubSeq(call.actions, before + 1, before + Len(ActionsOf(call.operations[k])))

\* action k + 1 of a sequence starts where action k ended
Continues(actions, k) ==
    /\ actions[k].kind = "Line" /\ actions[k + 1].kind = "Line"
    /\ actions[k].to_x = actions[k + 1].from_x
    /\ actions[k].to_y = actions[k + 1].from_y

MergePreservesGeometry ==
    call.name = "actions_to_polyline_operations" =>
       /\ Expanded(call.operations) = call.actions
       /\ \A k \in 1..Len(call.operations) :
             LET op == call.operations[k]
             IN  /\ op.kind \in {"Line", "Polyline", "FilledRect"}
                 /\ op.kind = "Polyline" => Len(op.points) >= 3
                 /\ \A n \in 1..(Len(InputOf(k)) - 1) : Continues(InputOf(k), n)
       \* and nothing else is flushed: one operation less per continuing line
       /\ Len(call.operations) =
             Len(call.actions)
             - Cardinality({n \in 1..(Len(call.actions) - 1) : Continues(call.actions, n)})

\* two connected lines, a line that starts elsewhere and a rectangle have
\* become a polyline, a line and a filled rectangle
MergePreservesGeometryWitness ==
    /\ call.name = "actions_to_polyline_operations"
    /\ Len(call.actions) = 4
    /\ Len(call.operations) = 3
    /\ call.operations[1].kind = "Polyline"
    /\ call.operations[2].kind = "Line"
    /\ call.operations[3].kind = "FilledRect"

-----------------------------------------------------------------------------
(* C30: at the end of every growth tick every position in the own_fields   *)
(* of any branch, active or stopped, the cells on which children were      *)
(* spawned included, is marked occupied in the grid.                       *)
IsOccupiedCell(q) == InGrid(q) /\ cells[to_idx(q, cell_count_x) + 1] = 1

AllVisitedOccupied(branches) ==
    \A k \in 1..Len(branches) :
       \A n \in 1..Len(branches[k].own_fields) : IsOccupiedCell(branches[k].own_fields[n])

VisitedCellsOccupied ==
    pc = "idle" => AllVisitedOccupied(branch_list) /\ AllVisitedOccupied(all_branches)

-----------------------------------------------------------------------------
(* C31: in every state of a growth phase the number of occupied cells is   *)
(* the number of distinct seed cells of the cycle plus the number of moves *)
(* committed since the cycle started: every committed move goes to a cell  *)
(* that was free, and no move goes to a seed cell.                         *)

\* every branch of the cycle: active, spawned in this pass, or stored
CycleBranches == branch_list \o new_branches \o all_branches

\* a child starts on a cell its parent has entered; a seed does not
IsChild(b) ==
    \E k \in 1..Len(CycleBranches) :
       \E n \in 2..Len(CycleBranches[k].own_fields) :
          CycleBranches[k].own_fields[n] = b.own_fields[1]

SeedCells == {CycleBranches[k].own_fields[1] :
                 k \in {n \in 1..Len(CycleBranches) : ~IsChild(CycleBranches[n])}}

ChildCount == Cardinality({k \in 1..Len(CycleBranches) : IsChild(CycleBranches[k])})

\* own_fields entries past the first are moves and branch-offs, and every
\* branch-off has made one child
CommittedMoves ==
    SumLens(OwnFieldsOf(CycleBranches)) - Len(CycleBranches) - ChildCount

OccupancyAccounting ==
    /\ [](GrowthPhase /\ ~panicked =>
             Cardinality(Occupied(cells)) = Cardinality(SeedCells) + CommittedMoves)
    /\ [][ pc = "commit" =>
             /\ cells[to_idx(new_pos[1], cell_count_x) + 1] = 0
             /\ new_pos[1] \notin SeedCells
             /\ Occupied(cells') = Occupied(cells) \cup {to_idx(new_pos[1], cell_count_x) + 1}
             /\ CommittedMoves' = CommittedMoves + 1 ]_vars
    /\ [][ pc # "idle" /\ pc # "commit" =>
             cells' = cells /\ CommittedMoves' = CommittedMoves ]_vars

\* a growth tick has ended on a 2x2 grid with three cells occupied by the
\* seed and two moves, and a child spawned on the fourth
OccupancyAccountingWitness ==
    /\ GrowthPhase /\ pc = "idle" /\ call.name = "update"
    /\ Len(cells) = 4
    /\ Cardinality(Occupied(cells)) = 3
    /\ Cardinality(SeedCells) = 1
    /\ CommittedMoves = 2
    /\ ChildCount >= 1

-----------------------------------------------------------------------------
(* C32: every branch that is still active at the end of a growth tick has  *)
(* committed a move into a free cell in that tick, so each tick that       *)
(* leaves the active list non-empty occupies at least one more cell; on a  *)
(* grid of C cells the active list is empty and reverse mode has started   *)
(* after at most C + 1 growth ticks.                                       *)

\* the branch stands on the occupied end cell of a line it has drawn since
\* the last render
HasMovedThisTick(b) ==
    /\ b.rendered_count < Len(b.history)
    /\ b.pos = Last(b.own_fields)
    /\ IsOccupiedCell(b.pos)
    /\ Last(b.history).kind = "Line"
    /\ Last(b.history).to_x = 2 * cfg.initial_size * b.pos.x + LineWidth \div 2
    /\ Last(b.history).to_y = 2 * cfg.initial_size * b.pos.y + LineWidth \div 2

GrowthTerminates ==
    /\ [][ pc = "stepping" /\ i <= Len(branch_list) /\ pc' = "stepping" =>
             branch_list'[i].state = "Stopped" /\ cells' = cells ]_vars
    /\ [][ pc = "commit" =>
             /\ cells[to_idx(new_pos[1], cell_count_x) + 1] = 0
             /\ cells'[to_idx(new_pos[1], cell_count_x) + 1] = 1
             /\ Cardinality(Occupied(cells')) = Cardinality(Occupied(cells)) + 1 ]_vars
    /\ [][ GrowthTickEnd =>
             /\ \A j \in 1..Len(branch_list') : HasMovedThisTick(branch_list'[j])
             /\ reverse_running' = (branch_list' = <<>>) ]_vars
    /\ [](GrowthPhase /\ pc = "idle" /\ ~panicked =>
             ticks <= Cardinality(Occupied(cells)) - Cardinality(SeedCells))
    /\ [](ticks <= Len(cells) + 1)
    /\ [][ ~reverse_running /\ reverse_running' =>
             GrowthTickEnd /\ branch_list' = <<>> /\ ticks <= Len(cells) + 1 ]_vars

\* on a 2x2 grid reverse mode has just started in the fourth growth tick:
\* three ticks with a move each, and one in which the last branch stopped
GrowthTerminatesWitness ==
    /\ reverse_running /\ call.name = "update" /\ turn = "render"
    /\ Len(cells) = 4
    /\ ticks = 4
    /\ Cardinality(Occupied(cells)) = 4

-----------------------------------------------------------------------------
(* C33: reverse_running and fading_out are never both true; while either   *)
(* is true the active list is empty; at the end of every growth tick every *)
(* active branch is Running and every stored branch is Stopped; during the *)
(* fade-out the stored set is empty.                                       *)
PhaseConsistency ==
    /\ ~(reverse_running /\ fading_out)
    /\ (reverse_running \/ fading_out => branch_list = <<>>)
    /\ (pc = "idle" => \A j \in 1..Len(branch_list) : IsRunning(branch_list[j]))
    /\ \A k \in 1..Len(all_branches) : all_branches[k].state = "Stopped"
    /\ (fading_out => all_branches = <<>>)
    /\ (reverse_running \/ fading_out => pc = "idle")

\* half way through the fade-out of a full 2x2 grid
PhaseConsistencyWitness ==
    /\ fading_out /\ fade_alpha = 45 /\ turn = "render"
    /\ Cardinality(Occupied(cells)) = 4

-----------------------------------------------------------------------------
(* C34: for a scene built with start_branches >= 1 on a non-empty grid     *)
(* is_animating() is true after every update and on_resize call: growth    *)
(* ends a tick with a Running branch, or else reverse mode or the fade-out *)
(* is set.                                                                 *)
AlwaysAnimating ==
    pc = "idle" /\ ~panicked /\ cfg.start_branches >= 1 /\ Len(cells) > 0 => is_animating

\* with show_reverse off the scene has come to rest in reverse mode, with
\* no active branch, and still counts as animating
AlwaysAnimatingWitness ==
    /\ ~cfg.show_reverse /\ reverse_running /\ branch_list = <<>>
    /\ turn = "update" /\ call.name = "render"
    /\ is_animating

-----------------------------------------------------------------------------
(* C35: with show_reverse off, every update call made in reverse mode, for *)
(* any delta time, leaves the scene as it is (histories, grid, flags,      *)
(* accumulator): the scene stays in reverse mode, and only a resize starts *)
(* a new cycle.                                                            *)
SceneState == <<cfg, cell_count_x, cell_count_y, cells, branch_list, all_branches,
                reverse_running, fading_out, fade_alpha, reverse_time_accumulator>>

FrozenReverse ==
    /\ [][ ReverseUpdateStep /\ ~cfg.show_reverse => SceneState' = SceneState ]_vars
    /\ [][ reverse_running /\ ~cfg.show_reverse /\ SceneState' # SceneState =>
             ResizeStep ]_vars

\* with show_reverse off an update has returned in reverse mode with the
\* drawing still in the histories
FrozenReverseWitness ==
    /\ ~cfg.show_reverse /\ reverse_running
    /\ call.name = "update" /\ turn = "render"
    /\ all_branches # <<>>
    /\ \A k \in 1..Len(all_branches) :
          /\ all_branches[k].history # <<>>
          /\ all_branches[k].pending_erasures = <<>>

-----------------------------------------------------------------------------
(* C36: with update and render alternating, every operation appended to a  *)
(* history during growth is part of exactly one draw batch, that of the    *)
(* render following the update that appended it (rendered_count is the     *)
(* number of the branch's operations submitted so far), and it is drawn    *)
(* before it is submitted for erasure; this includes the operations        *)
(* appended in the last growth tick, after which reverse mode starts.      *)
Unrendered(b) == SubSeq(b.history, b.rendered_count + 1, Len(b.history))

AllDrawn(branches) ==
    \A k \in 1..Len(branches) : branches[k].rendered_count = Len(branches[k].history)

\* the draw batch of a render holds exactly the operations appended since the
\* render before, and afterwards everything appended so far counts as drawn
DrawnOnceDuringGrowth ==
    /\ [][ call'.name = "render" /\ ~reverse_running =>
             LET ops == Concat([k \in 1..Len(all_branches) |-> Unrendered(all_branches[k])])
                        \o Concat([k \in 1..Len(branch_list) |-> Unrendered(branch_list[k])])
                 drawn == SelectSeq(submitted', LAMBDA bt : bt.kind = "draw")
             IN  /\ IF ops = <<>> THEN drawn = <<>>
                    ELSE drawn = <<Batch("draw", ops)>>
                 /\ AllDrawn(all_branches') /\ AllDrawn(branch_list') ]_vars
    /\ [](GrowthPhase /\ pc = "idle" /\ turn = "update" =>
             AllDrawn(all_branches) /\ AllDrawn(branch_list))
    /\ [](\A j \in 1..Len(branch_list) :
             branch_list[j].rendered_count <= Len(branch_list[j].history))

\* once the render that follows the last growth tick has run, whatever the
\* reverse engine finds in a history has been drawn
DrawnBeforeErased ==
    reverse_running /\ turn = "update" =>
       \A k \in 1..Len(all_branches) :
          Len(all_branches[k].history) <= all_branches[k].rendered_count

EachOpDrawnOnce == DrawnOnceDuringGrowth /\ []DrawnBeforeErased

-----------------------------------------------------------------------------
(* C37: in every reachable state the position of every branch and every    *)
(* entry of its own_fields is a cell of the grid, the position is one of   *)
(* the own_fields entries, and every line in a history or among the        *)
(* pending erasures joins two 4-adjacent cells of the grid; the line of a  *)
(* move starts at the position the branch moves from (the backtracked      *)
(* position after a jump) and the line of a branch-off at the last         *)
(* own_fields entry, and both end on the entry they push.                  *)
GridCells == {Pos(x, y) : x \in 0..(cell_count_x - 1), y \in 0..(cell_count_y - 1)}

IsUnitStep(p, q) ==
    /\ InGrid(p) /\ InGrid(q)
    /\ \E d \in 1..4 : AxisNeighbours(p)[d] = q

IsUnitLine(op) ==
    \E p \in GridCells : \E d \in 1..4 :
       /\ InGrid(AxisNeighbours(p)[d])
       /\ op = LineBetween(p, AxisNeighbours(p)[d])

OnGrid(b) ==
    /\ InGrid(b.pos)
    /\ \A n \in 1..Len(b.own_fields) : InGrid(b.own_fields[n])
    /\ \E n \in 1..Len(b.own_fields) : b.own_fields[n] = b.pos
    /\ \A n \in 1..Len(b.history) :
          b.history[n].kind = "Line" => IsUnitLine(b.history[n])
    /\ \A n \in 1..Len(b.pending_erasures) :
          b.pending_erasures[n].kind = "Line" => IsUnitLine(b.pending_erasures[n])

PositionsOnGrid ==
    /\ [](\A k \in 1..Len(CycleBranches) : OnGrid(CycleBranches[k]))
    /\ [][ pc = "commit" =>
             LET b == branch_list[i]
                 b2 == branch_list'[i]
             IN  /\ IsUnitStep(b.pos, new_pos[1])
                 /\ b2.pos = new_pos[1]
                 /\ b2.own_fields = Append(b.own_fields, new_pos[1])
                 /\ Last(b2.history) = LineBetween(b.pos, new_pos[1]) ]_vars
    /\ [][ SpawnStep =>
             LET b == branch_list[i]
                 b2 == branch_list'[i]
             IN  /\ IsUnitStep(Last(b.own_fields), b2.pos)
                 /\ b2.own_fields = Append(b.own_fields, b2.pos)
                 /\ Last(b2.history) = LineBetween(Last(b.own_fields), b2.pos) ]_vars

\* a branch has drawn a line from a position it had jumped back to: the cell
\* the line starts at is not the entry before the one it ends on
PositionsOnGridWitness ==
    \E k \in 1..Len(CycleBranches) :
       LET b == CycleBranches[k]
       IN  \E n \in 3..Len(b.own_fields) : \E m \in 1..(n - 2) :
              /\ ~IsUnitStep(b.own_fields[n - 1], b.own_fields[n])
              /\ \E h \in 1..Len(b.history) :
                    b.history[h] = LineBetween(b.own_fields[m], b.own_fields[n])

-----------------------------------------------------------------------------
(* C38: whenever find_next_move evaluates life_time - age, age < life_time *)
(* holds: the subtraction never underflows (the only panic is the seeding  *)
(* of a grid without cells), next-move selection is never reached for a    *)
(* branch with age >= life_time, whatever moves, promotions, age re-rolls  *)
(* and backtracking came before, and find_next_move calls itself at most   *)
(* once.                                                                   *)
RECURSIVE RecursionDepth(_)
\* the number of recursive calls find_next_move makes for branch b
RecursionDepth(b) ==
    IF b.state # "Running" THEN 0
    ELSE IF get_free_fields(b.pos, cells, cell_count_x, cell_count_y) # <<>> THEN 0
    ELSE LET moved == move_to_new_pos(b, cells, cell_count_x, cell_count_y,
                                      cfg.max_steps_back)
         IN  IF moved = <<>> THEN 0 ELSE 1 + RecursionDepth(moved[1])

\* the branches the stepping pass can hand to find_next_move in this state
Handed ==
    IF pc = "stepping" /\ i <= Len(branch_list) /\ ~death_check(branch_list[i])
    THEN mode_transition(branch_list[i])
    ELSE {}

\* the calls that get as far as the subtraction
Evaluates(b2, r) == r.new_pos # <<>> \/ r.overflow

NoLifetimeUnderflow ==
    /\ [](\A b2 \in Handed :
            /\ RecursionDepth(b2) <= 1
            /\ \A r \in find_next_move(b2, cells, cell_count_x, cell_count_y,
                                       cfg.life_time_branch, cfg.max_steps_back) :
                  /\ ~r.overflow
                  /\ Evaluates(b2, r) =>
                        /\ b2.age < b2.life_time
                        /\ r.branch.age <= b2.age
                        /\ r.branch.life_time = b2.life_time)
    /\ [](pc = "commit" => branch_list[i].age < branch_list[i].life_time)
    /\ [](panicked => Len(cells) = 0)
    /\ [](\A k \in 1..Len(CycleBranches) :
            CycleBranches[k].age <= CycleBranches[k].life_time)

\* the subtraction has just given 1 for a branch that had jumped back
NoLifetimeUnderflowWitness ==
    /\ pc = "commit"
    /\ branch_list[i].pos # Last(branch_list[i].own_fields)
    /\ branch_list[i].life_time - branch_list[i].age = 1

====
